---- MODULE Spec2Model ----
(***************************************************************************)
(* Vehicle-theft reporting application: the tables, triggers, row-level    *)
(* policies and the get_users_in_range function of the migrations, and the *)
(* TheftReportDialog submission workflow (report insert followed by the    *)
(* notification fan-out), as a state machine.                              *)
(*                                                                         *)
(* Coordinates are integers in thousandths of a degree.  A geography value *)
(* is the tuple <<x, y>> = <<lon, lat>>, and <<>> is SQL NULL.             *)
(***************************************************************************)
EXTENDS Integers, Sequences, FiniteSets

\* ------------------------------------------------------------------ bounds
NumUsers == 2
MaxReports == 2
MaxApiAlerts == 2
MaxConfirmationRequests == 2
MaxTime == 3
MaxChannels == 2

Users == 1..NumUsers
ReportIds == 1..MaxReports
\* The accounts that sign in on the client whose TheftReportDialog is modelled;
\* every user updates a profile and calls the API.
Reporters == {1}

\* SQL NULL of a geography column, and a device without a position fix.
NULL == <<>>

\* ------------------------------------------------------------- geography
\* The positions devices report in the model, as <<latitude, longitude>>:
\* 12.900N 77.600E and 12.885N 77.600E.
Fixes == {<<12900, 77600>>, <<12885, 77600>>}
\* A fix on the equator: its latitude is the number 0.
EquatorFix == <<0, 77600>>
Latitudes == {f[1] : f \in Fixes}
Longitudes == {f[2] : f \in Fixes}

\* ST_MakePoint(x, y): longitude first.
ST_MakePoint(x, y) == <<x, y>>
ST_X(g) == g[1]
ST_Y(g) == g[2]
Geographies == {ST_MakePoint(f[2], f[1]) : f \in Fixes}

\* The bounds of the radius: reportSchema's z.number().min(500).max(5000) and
\* the slider's min and max.
MinRadius == 500
MaxRadius == 5000

\* The alert radii the slider is set to in the model (default 1000).
Radii == {1000, 2000}

\* The argument handed to acos() by get_users_in_range,
\*   cos(radians(center_lat)) * cos(radians(lat)) * cos(radians(lon) - radians(center_lon))
\*     + sin(radians(center_lat)) * sin(radians(lat)),
\* evaluated in IEEE-754 double precision (the type of every operand), exceeds 1
\* for two coincident points at latitude 12.885 (it is 1.0000000000000002);
\* for latitude 12.900 it is exactly 1.0.  PostgreSQL's acos() raises
\* "input is out of range" for an argument above 1.
AcosInputOutOfRange(center_lat, center_lon, lat, lon) ==
  /\ center_lat = lat
  /\ center_lon = lon
  /\ lat = 12885

\* 6371000 * acos(...) of get_users_in_range in millimetres (rounded down), the
\* double-precision value of the expression for the positions of the model:
\*   12.900 - 12.885 : 1667.9238987458782 m     coincident : 0 m
GreatCircleMM(center_lat, center_lon, lat, lon) ==
  LET lo == IF center_lat < lat THEN center_lat ELSE lat
      hi == IF center_lat < lat THEN lat ELSE center_lat
  IN  CASE center_lon = lon /\ lo = hi -> 0
        [] center_lon = lon /\ lo = 12885 /\ hi = 12900 -> 1667923

\* The comparison with the Earth radius taken in kilometres (6371).
WithinRadius_Kilometres(mm, radius_meters) == mm \div 1000 <= radius_meters * 1000

\* "6371000 * acos(...) <= radius_meters", radius_meters an INTEGER.
WithinRadius(mm, radius_meters) == mm <= radius_meters * 1000

\* CAST(6371000 * acos(...) AS INTEGER): rounds to the nearest integer.
CastInteger(mm) == (mm + 500) \div 1000

\* ------------------------------------------------------------------ state
VARIABLES
  profiles,             \* public.profiles: user_id -> row (one row per registered user)
  reports,              \* public.reports: sequence of rows, the index is the id
  notification_alerts,  \* public.notification_alerts: sequence of rows
  confirmations,        \* public.confirmations: sequence of rows
  dialog,               \* the TheftReportDialog component: its state and its handler's position
  fanout,               \* what the dialog's latest fan-out saw and did (history)
  requests,             \* confirmation inserts sent, each with its answer once executed
  apiAlerts,            \* number of alert rows written outside the dialog
  supplied,             \* per report: the location its latest writer sent (history)
  now,                  \* now(): the clock, in hours
  response,             \* the answer to the latest request of an API client
  channels,             \* realtime: user -> the filter of its LiveNotifications channel, or NULL
  events,               \* realtime: INSERT events in flight, [to, id]
  toasts,               \* per user: the alert ids its INSERT callback has fired for, in order
  form,                 \* the report form in use (TheftReportForm or ReportStolenVehicle): its handler's position and outcome
  client,               \* the browser: the signed-in user of AuthContext (0: none) and the mounted components
  live,                 \* per component: the realtime channels it has subscribed and nobody has removed
  index,                \* the Index page: its reports list (ids, first shown first) and its loadReports answers in flight
  reportEvents,         \* realtime: reports INSERT events in flight to Index channels, [ch, id]
  fired,                \* the channel callbacks that have run: [component, mounted] (history)
  profileRows,          \* public.profiles as the rows stored, in insertion order (several rows of one user are expressible)
  fetches,              \* per user: the position of fetchProfile in its ProfileSection, and the profile it has set
  preview,              \* the users-in-range preview of the dialog: the position useLocation reports, the count shown, the call it came from (history), the rpc calls in flight
  tracker               \* StatusTracker: the reports it has loaded and what its latest render shows for each

vars == <<profiles, reports, notification_alerts, confirmations, dialog, fanout,
          requests, apiAlerts, supplied, now, response, channels, events, toasts, form, client, live, index, reportEvents, fired, profileRows, fetches, preview, tracker>>

RECURSIVE Ascending(_)
\* The elements of a finite set of integers as a sequence, smallest first.
Ascending(S) ==
  IF S = {} THEN <<>>
  ELSE LET m == CHOOSE x \in S : \A y \in S : x <= y
       IN  <<m>> \o Ascending(S \ {m})

\* ------------------------------------------------ get_users_in_range (SQL)
\* The query without its "p.user_id != auth.uid()" qual.
NotCaller_Dropped(user_id, uid) == TRUE

\* "p.user_id != auth.uid()"
NotCaller(user_id, uid) == user_id # uid

\* The rows that reach the distance expression when the planner evaluates the
\* two cheaper quals (IS NOT NULL, user_id != auth.uid()) before the acos()
\* qual.  Under the other order the function raises for more inputs, never
\* for fewer; a failing rpc is RangeQueryError, enabled whenever the rpc runs.
RangeCandidates(uid) ==
  {u \in DOMAIN profiles : profiles[u].location # NULL /\ NotCaller(u, uid)}

DistanceOf(center_lat, center_lon, u) ==
  GreatCircleMM(center_lat, center_lon,
                ST_Y(profiles[u].location), ST_X(profiles[u].location))

\* public.get_users_in_range(center_lat, center_lon, radius_meters) called with
\* auth.uid() = uid: [error, data], data the returned rows (fcm_token is NULL in
\* every row: nothing in the repository sets it).
get_users_in_range(center_lat, center_lon, radius_meters, uid) ==
  LET raises == \E u \in RangeCandidates(uid) :
                  AcosInputOutOfRange(center_lat, center_lon,
                                      ST_Y(profiles[u].location),
                                      ST_X(profiles[u].location))
      hit == {u \in RangeCandidates(uid) :
                WithinRadius(DistanceOf(center_lat, center_lon, u), radius_meters)}
      ord == Ascending(hit)
  IN  IF raises THEN [error |-> TRUE, data |-> <<>>]
      ELSE [error |-> FALSE,
            data |-> [i \in 1..Len(ord) |->
                        [user_id |-> ord[i],
                         distance_meters |->
                           CastInteger(DistanceOf(center_lat, center_lon, ord[i]))]]]

\* ------------------------------------------------------ triggers, policies
\* A trigger function that returns NEW as the client sent it.
update_report_location_Keeps(new) == new

\* update_report_location(): NEW.location = ST_MakePoint(NEW.lon, NEW.lat)
update_report_location(new) ==
  [new EXCEPT !.location = ST_MakePoint(new.lon, new.lat)]

\* A policy that lets a report through at the instant it expires.
ReportsSelectPolicy_AtExpiry(uid, row) == row.expiry_at >= now

\* "Users can view all active reports": USING (expiry_at > now())
ReportsSelectPolicy(uid, row) == row.expiry_at > now

\* An INSERT policy that admits every authenticated user: WITH CHECK (true).
ReportsInsertPolicy_Open(uid, row) == TRUE

\* "Users can create their own reports": WITH CHECK (auth.uid() = user_id)
ReportsInsertPolicy(uid, row) == uid = row.user_id
\* "Users can update their own reports": USING (auth.uid() = user_id)
ReportsUpdatePolicy(uid, row) == uid = row.user_id
\* "Users can create alerts for their reports": WITH CHECK (auth.uid() = sender_user_id)
AlertsInsertPolicy(uid, row) == uid = row.sender_user_id
\* A SELECT policy that lets every authenticated user through: USING (true).
AlertsSelectPolicy_Open(uid, row) == TRUE

\* "Users can view alerts sent to them": USING (auth.uid() = recipient_user_id)
AlertsSelectPolicy(uid, row) == uid = row.recipient_user_id
\* "Users can update their received alerts": USING (auth.uid() = recipient_user_id)
AlertsUpdatePolicy(uid, row) == uid = row.recipient_user_id
\* "Users can create confirmations": WITH CHECK (auth.uid() = user_id)
ConfirmationsInsertPolicy(uid, row) == uid = row.user_id

\* reports.expiry_at DEFAULT (now() + interval '2 hours').
DefaultExpiryHours == 2

\* The vehicle number typed into the forms in the model, and the empty input.
VehicleNo == "KA01AB1234"
VehicleNumbers == {VehicleNo, ""}

\* The column defaults of public.reports applied to an inserted row:
\* created_at is now(), expiry_at is now() + 2 hours and status is 'pending'
\* unless the row carries one.
ReportDefaults(row) ==
  [user_id |-> row.user_id, vehicle_no |-> row.vehicle_no,
   lat |-> row.lat, lon |-> row.lon, location |-> row.location,
   radius_m |-> row.radius_m, created_at |-> now,
   expiry_at |-> IF "expiry_at" \in DOMAIN row THEN row.expiry_at
                 ELSE now + DefaultExpiryHours,
   status |-> IF "status" \in DOMAIN row THEN row.status ELSE "pending"]

\* reports.status CHECK (status IN ('pending', 'verified', 'false'))
StatusCheck(row) == row.status \in {"pending", "verified", "false"}

\* `POINT(${longitude} ${latitude})`, the geography text the clients send.
PointText(longitude, latitude) == ST_MakePoint(longitude, latitude)

\* A multi-row insert that writes row by row and, when a row fails, keeps the
\* rows written before it.
FailedInsert_KeepsPrefix(table, rows) == table \o SubSeq(rows, 1, Len(rows) - 1)

\* A multi-row insert that fails: supabase.from(...).insert(rows) is one INSERT
\* statement, and a statement that fails leaves no row of it in the table.
FailedInsert(table, rows) == table

\* The statement sent a second time (a retried request).
InsertRows_Twice(table, rows) == table \o rows \o rows

\* supabase.from(table).insert(rows): one INSERT statement appending the rows.
InsertRows(table, rows) == table \o rows

\* ------------------------------------------------------------- realtime
\* A channel whose filter names the sender column.
ChannelMatches_Sender(c, row) == row.sender_user_id = c.filter

\* The filter of a postgres_changes channel, `recipient_user_id=eq.${filter}`,
\* applied to an inserted row.
ChannelMatches(c, row) == row.recipient_user_id = c.filter

\* The INSERT events of the rows of one committed statement, stored with the
\* ids first + 1 .. first + Len(rows): one event per row and channel whose
\* filter matches and whose user the SELECT policy lets read the row
\* (notification_alerts is in the supabase_realtime publication).
Broadcast(first, rows) ==
  {e \in [to : Users, id : (first + 1)..(first + Len(rows))] :
     \E c \in channels :
       /\ c.user = e.to
       /\ ChannelMatches(c, rows[e.id - first])
       /\ AlertsSelectPolicy(c.user, rows[e.id - first])}

\* The components that subscribe to realtime channels.
Components == {"Index", "LiveNotifications", "LiveTheftMap", "UserReports"}

\* The reports INSERT events the realtime service puts in flight for the row
\* stored under id: one per channel an Index has subscribed and nobody has
\* removed, the SELECT policy applied for the channel's user.
ReportBroadcast(id, row) ==
  {[ch |-> k, id |-> id] : k \in {j \in 1..Len(live["Index"]) :
                                     ReportsSelectPolicy(live["Index"][j].user, row)}}

RECURSIVE NewestFirst(_, _)
\* .order('created_at', {ascending: false}): the ids of S by created_at of
\* table, latest first (among equal created_at, the later row first).
NewestFirst(table, S) ==
  IF S = {} THEN <<>>
  ELSE LET m == CHOOSE x \in S : \A y \in S :
                  \/ table[x].created_at > table[y].created_at
                  \/ table[x].created_at = table[y].created_at /\ x >= y
       IN  <<m>> \o NewestFirst(table, S \ {m})

\* The answer to the query of Index.loadReports sent by uid against table at
\* the store's time `at`, the device's clock showing clientNow: select * from
\* reports where expiry_at >= clientNow order by created_at desc, under the
\* SELECT policy.
LoadReportsData(table, uid, at, clientNow) ==
  NewestFirst(table, {i \in 1..Len(table) :
                        table[i].expiry_at > at /\ table[i].expiry_at >= clientNow})

\* ------------------------------------------------------- TheftReportDialog
\* "!location.latitude || !location.longitude": null and the number 0 are falsy.
HasLocation(fix) == fix # NULL /\ fix[1] # 0 /\ fix[2] # 0

\* useState([1000]) of alertRadius, and the value handleSubmit resets it to.
DefaultRadius == 1000

\* The component when mounted, its parent's showReportDialog being false.
\* user, location, radius, reportId and alerts are the values the running
\* handleSubmit closed over or computed.
IdleDialog ==
  [open |-> FALSE, isSubmitting |-> FALSE, pc |-> "idle",
   alertRadius |-> DefaultRadius,
   user |-> 0, location |-> NULL, radius |-> 0, reportId |-> 0, alerts |-> <<>>,
   vehicleNo |-> "", toast |-> "none", alertsSent |-> 0]

NoFanout == [report |-> 0, state |-> "none", inRange |-> {}]

\* The alert text.  The custom message field is left empty in the model, so
\* "formData.message || template" is the template naming the vehicle number.
AlertMessage == "THEFT ALERT"

\* sendAlertsToUsers: usersInRange.map(...), one alert per returned row.
BuildAlerts(reportId, sender, usersInRange) ==
  [i \in 1..Len(usersInRange) |->
     [report_id |-> reportId,
      recipient_user_id |-> usersInRange[i].user_id,
      sender_user_id |-> sender,
      message |-> AlertMessage,
      distance_meters |-> usersInRange[i].distance_meters,
      read_at |-> NULL]]

\* The rest of handleSubmit once sendAlertsToUsers has returned n: the toast
\* "Report created and n users ... have been notified", the form reset,
\* onOpenChange(false), and in finally setIsSubmitting(false).
SubmitSucceeded(d, n) ==
  [d EXCEPT !.toast = "submitted", !.alertsSent = n,
            !.alertRadius = DefaultRadius, !.open = FALSE,
            !.isSubmitting = FALSE, !.pc = "idle", !.vehicleNo = "",
            !.location = NULL, !.radius = 0, !.alerts = <<>>]

\* handleSubmit's catch block: the destructive toast; finally
\* setIsSubmitting(false).  The form and the dialog stay as they are.
SubmitFailed(d) ==
  [d EXCEPT !.toast = "error", !.alertsSent = 0,
            !.isSubmitting = FALSE, !.pc = "idle", !.vehicleNo = "",
            !.location = NULL, !.radius = 0, !.alerts = <<>>]

\* sendAlertsToUsers without its catch block: the error reaches handleSubmit's.
SendAlertsCaught_Rethrows(d) == SubmitFailed(d)

\* A catch block that returns alerts.length, the size of the prepared batch.
SendAlertsCaught_PreparedCount(d) == SubmitSucceeded(d, Len(d.alerts))

\* sendAlertsToUsers' catch block: "return 0"; handleSubmit then goes on with
\* that count.
SendAlertsCaught(d) == SubmitSucceeded(d, 0)

\* handleSubmit without "if (reportError) throw reportError".
AfterReportInsert_IgnoresError(d, reportError, id) ==
  [d EXCEPT !.reportId = id, !.pc = "rpc"]

\* What handleSubmit does with the answer to the reports insert:
\* "if (reportError) throw reportError", else sendAlertsToUsers(report.id).
AfterReportInsert(d, reportError, id) ==
  IF reportError THEN SubmitFailed(d)
  ELSE [d EXCEPT !.reportId = id, !.pc = "rpc"]

\* The parent opens the dialog (onOpenChange(true)).
OpenDialog ==
  /\ ~dialog.open
  /\ dialog' = [dialog EXCEPT !.open = TRUE]
  /\ UNCHANGED <<profiles, reports, notification_alerts, confirmations, fanout,
                 requests, apiAlerts, supplied,
                 now, response, channels, events, toasts, form, client, live, index, reportEvents, fired, profileRows, fetches, preview, tracker>>

\* The dialog before useLocation has a position: no count computed, no call
\* sent.
NoPreview == [location |-> NULL, usersInRange |-> 0, shownFor |-> NULL, calls |-> {}]

\* The effect on [alertRadius, location.latitude, location.longitude]: with a
\* position, calculateUsersInRange() sends rpc('get_users_in_range') for the
\* position and the radius of this render; <<radius, position>> is the call.
PreviewEffect(pv, radius) ==
  IF HasLocation(pv.location)
    THEN [pv EXCEPT !.calls = @ \cup {<<radius, pv.location>>}]
    ELSE pv

\* The slider: onValueChange={setAlertRadius}, and the effect that follows the
\* render.
SetAlertRadius(r) ==
  /\ dialog.open
  /\ dialog' = [dialog EXCEPT !.alertRadius = r]
  /\ preview' = PreviewEffect(preview, r)
  /\ UNCHANGED <<profiles, reports, notification_alerts, confirmations,
                 fanout, requests, apiAlerts, supplied, now, response,
                 channels, events, toasts, form, client, live, index,
                 reportEvents, fired, profileRows, fetches, tracker>>

\* useLocation reports a position: the component renders again and the effect
\* runs.
LocationChanged(fix) ==
  /\ fix # preview.location
  /\ preview' = PreviewEffect([preview EXCEPT !.location = fix], dialog.alertRadius)
  /\ UNCHANGED <<profiles, reports, notification_alerts, confirmations,
                 dialog, fanout, requests, apiAlerts, supplied, now,
                 response, channels, events, toasts, form, client, live,
                 index, reportEvents, fired, profileRows, fetches, tracker>>

\* A call of calculateUsersInRange is answered with rows, for the account u
\* signed in: setUsersInRange(data?.length || 0).
UsersInRangeAnswer(u, call) ==
  LET res == get_users_in_range(call[2][1], call[2][2], call[1], u)
  IN  /\ call \in preview.calls
      /\ ~res.error
      /\ preview' = [preview EXCEPT !.calls = @ \ {call},
                                    !.usersInRange = Len(res.data),
                                    !.shownFor = call]
  /\ UNCHANGED <<profiles, reports, notification_alerts, confirmations,
                 dialog, fanout, requests, apiAlerts, supplied, now,
                 response, channels, events, toasts, form, client, live,
                 index, reportEvents, fired, profileRows, fetches, tracker>>

\* A call of calculateUsersInRange is answered with an error: logged, the
\* count stays.
UsersInRangeError(call) ==
  /\ call \in preview.calls
  /\ preview' = [preview EXCEPT !.calls = @ \ {call}]
  /\ UNCHANGED <<profiles, reports, notification_alerts, confirmations,
                 dialog, fanout, requests, apiAlerts, supplied, now,
                 response, channels, events, toasts, form, client, live,
                 index, reportEvents, fired, profileRows, fetches, tracker>>

\* A submit button that stays enabled while a submission runs.
SubmitDisabled_WhileEmpty(d, vehicleNo) == vehicleNo = ""

\* The submit button: disabled={isSubmitting || !formData.vehicleNo}.
SubmitDisabled(d, vehicleNo) == d.isSubmitting \/ vehicleNo = ""

\* handleSubmit up to its first await (the reports insert), with account u
\* signed in, the device at `fix` and vehicleNo typed into the form.  The
\* submit button is disabled while isSubmitting and while vehicleNo is empty.
HandleSubmit(u, fix, vehicleNo) ==
  /\ dialog.open
  /\ ~SubmitDisabled(dialog, vehicleNo)
  /\ IF ~HasLocation(fix)
       THEN UNCHANGED <<dialog, fanout>>
       ELSE /\ dialog' = [dialog EXCEPT !.isSubmitting = TRUE,
                                        !.pc = "reports.insert",
                                        !.user = u,
                                        !.location = fix,
                                        !.radius = dialog.alertRadius,
                                        !.vehicleNo = vehicleNo,
                                        !.reportId = 0]
            /\ fanout' = NoFanout
  /\ UNCHANGED <<profiles, reports, notification_alerts, confirmations,
                 requests, apiAlerts, supplied,
                 now, response, channels, events, toasts, form, client, live, index, reportEvents, fired, profileRows, fetches, preview, tracker>>

\* The row handleSubmit inserts into reports.
SubmittedReport ==
  [user_id |-> dialog.user,
   vehicle_no |-> dialog.vehicleNo,
   lat |-> dialog.location[1],
   lon |-> dialog.location[2],
   location |-> PointText(dialog.location[2], dialog.location[1]),
   radius_m |-> dialog.radius]

\* An insert that answers a repeated request with the id of the last stored row.
NewReportId_Reused == IF reports = <<>> THEN 1 ELSE Len(reports)

\* The id the table gives the next row (gen_random_uuid(): never one in use).
NewReportId == Len(reports) + 1

\* The users the range predicate holds for, for report row r, on the profiles
\* as they are now: stored location present and within r.radius_m of (r.lat, r.lon).
UsersInRangeOf(r) ==
  {v \in DOMAIN profiles :
     /\ profiles[v].location # NULL
     /\ GreatCircleMM(r.lat, r.lon, profiles[v].location[2],
                      profiles[v].location[1]) <= 1000 * r.radius_m}

\* The reports insert succeeds: the row is stored (BEFORE INSERT trigger applied)
\* and handleSubmit calls sendAlertsToUsers(report.id), which awaits the rpc.
ReportInsertOk ==
  /\ dialog.pc = "reports.insert"
  /\ Len(reports) < MaxReports
  /\ ReportsInsertPolicy(dialog.user, SubmittedReport)
  /\ reports' = InsertRows(reports,
                   <<update_report_location(ReportDefaults(SubmittedReport))>>)
  /\ supplied' = Append(supplied, SubmittedReport.location)
  /\ dialog' = AfterReportInsert(dialog, FALSE, NewReportId)
  /\ reportEvents' = reportEvents
       \cup ReportBroadcast(NewReportId, ReportDefaults(SubmittedReport))
  /\ UNCHANGED <<profiles, notification_alerts, confirmations, fanout,
                 requests, apiAlerts,
                 now, response, channels, events, toasts, form, client, live,
                 index, fired, profileRows, fetches, preview, tracker>>

\* The reports insert fails (reportError): nothing is stored.
ReportInsertError ==
  /\ dialog.pc = "reports.insert"
  /\ dialog' = AfterReportInsert(dialog, TRUE, NewReportId)
  /\ UNCHANGED <<profiles, reports, notification_alerts, confirmations, fanout,
                 requests, apiAlerts, supplied,
                 now, response, channels, events, toasts, form, client, live, index, reportEvents, fired, profileRows, fetches, preview, tracker>>

\* sendAlertsToUsers: the rpc returns rows.  With none, nothing is inserted and
\* alerts.length = 0 is returned; otherwise the batch insert is awaited.
RangeQueryOk ==
  LET d == dialog
      res == get_users_in_range(d.location[1], d.location[2], d.radius, d.user)
      alerts == BuildAlerts(d.reportId, d.user, res.data)
      seen == [report |-> d.reportId, state |-> "queried",
               inRange |-> UsersInRangeOf(reports[d.reportId])]
  IN  /\ d.pc = "rpc"
      /\ ~res.error
      /\ IF Len(alerts) > 0
           THEN /\ dialog' = [d EXCEPT !.alerts = alerts, !.pc = "alerts.insert"]
                /\ fanout' = seen
           ELSE /\ dialog' = SubmitSucceeded(d, Len(alerts))
                /\ fanout' = [seen EXCEPT !.state = "sent"]
      /\ UNCHANGED <<profiles, reports, notification_alerts, confirmations,
                     requests, apiAlerts, supplied,
                     now, response, channels, events, toasts, form, client, live, index, reportEvents, fired, profileRows, fetches, preview, tracker>>

\* The rpc fails (usersError): the function raised, or the store did not answer.
RangeQueryError ==
  /\ dialog.pc = "rpc"
  /\ dialog' = SendAlertsCaught(dialog)
  /\ fanout' = [report |-> dialog.reportId, state |-> "rpc_error", inRange |-> {}]
  /\ UNCHANGED <<profiles, reports, notification_alerts, confirmations,
                 requests, apiAlerts, supplied,
                 now, response, channels, events, toasts, form, client, live, index, reportEvents, fired, profileRows, fetches, preview, tracker>>

\* The batch insert into notification_alerts succeeds: one statement, all rows.
AlertInsertOk ==
  /\ dialog.pc = "alerts.insert"
  /\ \A i \in 1..Len(dialog.alerts) : AlertsInsertPolicy(dialog.user, dialog.alerts[i])
  /\ notification_alerts' = InsertRows(notification_alerts, dialog.alerts)
  /\ events' = events \cup Broadcast(Len(notification_alerts), dialog.alerts)
  /\ dialog' = SubmitSucceeded(dialog, Len(dialog.alerts))
  /\ fanout' = [fanout EXCEPT !.state = "sent"]
  /\ UNCHANGED <<profiles, reports, confirmations, requests,
                 apiAlerts, supplied,
                 now, response, channels, toasts, form, client, live, index, reportEvents, fired, profileRows, fetches, preview, tracker>>

\* The batch insert fails (alertError): no row of the statement is stored.
AlertInsertError ==
  /\ dialog.pc = "alerts.insert"
  /\ notification_alerts' = FailedInsert(notification_alerts, dialog.alerts)
  /\ dialog' = SendAlertsCaught(dialog)
  /\ fanout' = [fanout EXCEPT !.state = "insert_error"]
  /\ UNCHANGED <<profiles, reports, confirmations,
                 requests, apiAlerts, supplied,
                 now, response, channels, events, toasts, form, client, live, index, reportEvents, fired, profileRows, fetches, preview, tracker>>

\* ----------------------------------------------------------- ProfileSection
\* updateLocation: update profiles set location = POINT(lon lat) where user_id = me.
UpdateLocation(u, fix) ==
  /\ HasLocation(fix)
  /\ profiles' = [profiles EXCEPT ![u].location = PointText(fix[2], fix[1])]
  /\ UNCHANGED <<reports, notification_alerts, confirmations, dialog, fanout,
                 requests, apiAlerts, supplied,
                 now, response, channels, events, toasts, form, client, live, index, reportEvents, fired, profileRows, fetches, preview, tracker>>

\* ------------------------------------- TheftReportForm, ReportStolenVehicle
\* No form is submitting.
IdleForm ==
  [component |-> "none", pc |-> "idle", row |-> NULL, toast |-> "none",
   error |-> "none", reportId |-> 0]

\* The expiryHours a TheftReportForm submission carries (the schema admits 1..24).
FormExpiryHours == {1, 2}

\* ReportStolenVehicle: Date.now() + 7 * 24 * 60 * 60 * 1000, in hours.
StolenVehicleExpiryHours == 168

\* ReportStolenVehicle: radius_m: 5000.
StolenVehicleRadius == 5000

\* TheftReportForm.onSubmit up to its await of the reports insert, for user u
\* with the device at fix and its clock at clientNow; the data has passed
\* reportSchema.  Without a location: the error toast, and return.
TheftReportFormSubmit(u, fix, vehicleNo, radius, expiryHours, clientNow) ==
  /\ form.pc = "idle"
  /\ vehicleNo # "" /\ MinRadius <= radius /\ radius <= MaxRadius
  /\ form' = IF ~HasLocation(fix)
               THEN [IdleForm EXCEPT !.component = "TheftReportForm",
                                     !.toast = "location_required"]
               ELSE [component |-> "TheftReportForm", pc |-> "reports.insert",
                     row |-> [user_id |-> u, vehicle_no |-> vehicleNo,
                              lat |-> fix[1], lon |-> fix[2],
                              location |-> PointText(fix[2], fix[1]),
                              radius_m |-> radius,
                              expiry_at |-> clientNow + expiryHours],
                     toast |-> "none", error |-> "none", reportId |-> 0]
  /\ UNCHANGED <<profiles, reports, notification_alerts, confirmations, dialog,
                 fanout, requests, apiAlerts, supplied, now, response, channels,
                 events, toasts, client, live, index, reportEvents, fired, profileRows, fetches, preview, tracker>>

\* ReportStolenVehicle.onSubmit up to its await of the reports insert.  With
\* useManualLocation the row is sent with lat 0, lon 0 and POINT(0 0).
ReportStolenVehicleSubmit(u, fix, vehicleNumber, useManualLocation, clientNow) ==
  /\ form.pc = "idle"
  /\ vehicleNumber # ""
  /\ form' = IF ~useManualLocation /\ ~HasLocation(fix)
               THEN [IdleForm EXCEPT !.component = "ReportStolenVehicle",
                                     !.toast = "location_required"]
               ELSE [component |-> "ReportStolenVehicle", pc |-> "reports.insert",
                     row |-> [user_id |-> u, vehicle_no |-> vehicleNumber,
                              lat |-> IF useManualLocation THEN 0 ELSE fix[1],
                              lon |-> IF useManualLocation THEN 0 ELSE fix[2],
                              location |-> IF useManualLocation THEN PointText(0, 0)
                                           ELSE PointText(fix[2], fix[1]),
                              radius_m |-> StolenVehicleRadius,
                              expiry_at |-> clientNow + StolenVehicleExpiryHours,
                              status |-> "active"],
                     toast |-> "none", error |-> "none", reportId |-> 0]
  /\ UNCHANGED <<profiles, reports, notification_alerts, confirmations, dialog,
                 fanout, requests, apiAlerts, supplied, now, response, channels,
                 events, toasts, client, live, index, reportEvents, fired, profileRows, fetches, preview, tracker>>

\* The answer of the store to the form's insert: the INSERT policy, then the
\* CHECK constraint on the row with its defaults applied.
FormInsertAnswer ==
  IF ~ReportsInsertPolicy(form.row.user_id, form.row) THEN "denied"
  ELSE IF ~StatusCheck(ReportDefaults(form.row)) THEN "check_violation"
  ELSE "created"

\* The form's insert is stored: the INSERT policy and the CHECK pass, the
\* trigger sets the location.  The handler shows its success toast, calls
\* onSuccess() and onClose() and returns; it calls nothing else.  onSuccess
\* is handleReportSuccess of the Index that renders the form: loadReports(),
\* whose query is sent to the store (clientNow: the device's clock).
FormInsertOk(clientNow) ==
  /\ form.pc = "reports.insert"
  /\ Len(reports) < MaxReports
  /\ FormInsertAnswer = "created"
  /\ reports' = InsertRows(reports,
                   <<update_report_location(ReportDefaults(form.row))>>)
  /\ supplied' = Append(supplied, form.row.location)
  /\ form' = [form EXCEPT !.pc = "idle", !.toast = "success",
                          !.reportId = NewReportId]
  /\ reportEvents' = reportEvents
       \cup ReportBroadcast(NewReportId, ReportDefaults(form.row))
  /\ index' = IF "Index" \in client.mounted
                THEN [index EXCEPT !.loads = @ \cup
                        {LoadReportsData(reports', client.user, now, clientNow)}]
                ELSE index
  /\ UNCHANGED <<profiles, notification_alerts, confirmations, dialog, fanout,
                 requests, apiAlerts, now, response, channels, events, toasts,
                 client, live, fired, profileRows, fetches, preview, tracker>>

\* The form's insert fails, the store rejecting the row or being unavailable:
\* nothing is stored; the catch block shows the error toast.
FormInsertError ==
  /\ form.pc = "reports.insert"
  /\ \E error \in {"unavailable", FormInsertAnswer} \ {"created"} :
       form' = [form EXCEPT !.pc = "idle", !.toast = "error", !.error = error]
  /\ UNCHANGED <<profiles, reports, notification_alerts, confirmations, dialog,
                 fanout, requests, apiAlerts, supplied, now, response, channels,
                 events, toasts, client, live, index, reportEvents, fired, profileRows, fetches, preview, tracker>>

\* ------------------------------------------- components and their channels
\* The components whose subscribing effect has [user] as dependencies; that of
\* LiveTheftMap has [].
UserEffects == {"Index", "LiveNotifications", "UserReports"}

\* A channel as supabase.channel(name).on(...).subscribe() leaves it, opened
\* with user u signed in.  stale: the component instance whose callback it
\* holds has unmounted.
Channel(u) == [user |-> u, stale |-> FALSE]

\* The cleanup of component c's effect applied to its channels.  LiveNotifications,
\* LiveTheftMap and UserReports return () => supabase.removeChannel(channel).
\* The effect of Index calls setupRealtime() and drops the function it returns,
\* so React has no cleanup to run.
EffectCleanup(c, chans) == IF c = "Index" THEN chans ELSE <<>>

\* The body of component c's effect run with user u (0: none) signed in.
\* Index ("if (user)"), LiveNotifications ("if (!user?.id) return") and
\* UserReports ("if (!user) return") subscribe only for a user; each
\* supabase.channel() call makes a channel of its own.
EffectSubscribe(c, u, chans) ==
  IF c \in UserEffects /\ u = 0 THEN chans ELSE Append(chans, Channel(u))

\* The Index instance as mounted, before any answer: useState([]).  Its effect
\* has called loadReports() if a user is signed in.
NewIndex(u, clientNow) ==
  [reports |-> <<>>,
   loads |-> IF u = 0 THEN {} ELSE {LoadReportsData(reports, u, now, clientNow)}]

\* Component c mounts: its effect runs.
Mount(c, clientNow) ==
  /\ c \notin client.mounted
  /\ Len(live[c]) < MaxChannels
  /\ client' = [client EXCEPT !.mounted = @ \cup {c}]
  /\ live' = [live EXCEPT ![c] = EffectSubscribe(c, client.user, @)]
  /\ index' = IF c = "Index" THEN NewIndex(client.user, clientNow) ELSE index
  /\ UNCHANGED <<profiles, reports, notification_alerts, confirmations, dialog,
                 fanout, requests, apiAlerts, supplied, now, response, channels,
                 events, toasts, form, reportEvents, fired, profileRows, fetches, preview, tracker>>

\* Component c unmounts: the cleanup of its effect runs and its state is gone.
\* What is left of its channels holds callbacks of a dead instance.
Unmount(c) ==
  /\ c \in client.mounted
  /\ client' = [client EXCEPT !.mounted = @ \ {c}]
  /\ live' = [live EXCEPT ![c] =
                 [k \in 1..Len(EffectCleanup(c, @)) |->
                    [EffectCleanup(c, @)[k] EXCEPT !.stale = TRUE]]]
  /\ index' = IF c = "Index" THEN [reports |-> <<>>, loads |-> {}] ELSE index
  /\ UNCHANGED <<profiles, reports, notification_alerts, confirmations, dialog,
                 fanout, requests, apiAlerts, supplied, now, response, channels,
                 events, toasts, form, reportEvents, fired, profileRows, fetches, preview, tracker>>

\* AuthContext's user changes to u (sign-in, sign-out): in every mounted
\* component whose effect depends on user, the cleanup runs and then the effect.
ChangeUser(u, clientNow) ==
  /\ u # client.user
  /\ "Index" \in client.mounted /\ u # 0 => Len(live["Index"]) < MaxChannels
  /\ client' = [client EXCEPT !.user = u]
  /\ live' = [c \in Components |->
                IF c \in client.mounted \cap UserEffects
                  THEN EffectSubscribe(c, u, EffectCleanup(c, live[c]))
                  ELSE live[c]]
  /\ index' = IF "Index" \in client.mounted /\ u # 0
                THEN [index EXCEPT !.loads = @ \cup
                        {LoadReportsData(reports, u, now, clientNow)}]
                ELSE index
  /\ UNCHANGED <<profiles, reports, notification_alerts, confirmations, dialog,
                 fanout, requests, apiAlerts, supplied, now, response, channels,
                 events, toasts, form, reportEvents, fired, profileRows, fetches, preview, tracker>>

\* A change matching a channel of component c reaches the browser and the
\* channel's callback runs (LiveNotifications, LiveTheftMap, UserReports: a
\* reload).
ChannelCallback(c) ==
  /\ c # "Index"
  /\ live[c] # <<>>
  /\ fired' = fired \cup {[component |-> c, mounted |-> c \in client.mounted]}
  /\ UNCHANGED <<profiles, reports, notification_alerts, confirmations, dialog,
                 fanout, requests, apiAlerts, supplied, now, response, channels,
                 events, toasts, form, client, live, index, reportEvents, profileRows, fetches, preview, tracker>>

\* The INSERT callback of an Index channel runs for event e:
\* setReports(prev => [newReport, ...prev]) and a toast.  The setReports of an
\* unmounted instance changes nothing.
IndexDeliver(e) ==
  /\ e \in reportEvents
  /\ reportEvents' = reportEvents \ {e}
  /\ fired' = fired \cup {[component |-> "Index",
                            mounted |-> ~live["Index"][e.ch].stale]}
  /\ index' = IF live["Index"][e.ch].stale THEN index
                ELSE [index EXCEPT !.reports = <<e.id>> \o @]
  /\ UNCHANGED <<profiles, reports, notification_alerts, confirmations, dialog,
                 fanout, requests, apiAlerts, supplied, now, response, channels,
                 events, toasts, form, client, live, profileRows, fetches, preview, tracker>>

\* An answer to loadReports arrives: setReports(data || []).
IndexLoadDone(data) ==
  /\ data \in index.loads
  /\ index' = [reports |-> data, loads |-> index.loads \ {data}]
  /\ UNCHANGED <<profiles, reports, notification_alerts, confirmations, dialog,
                 fanout, requests, apiAlerts, supplied, now, response, channels,
                 events, toasts, form, client, live, reportEvents, fired, profileRows, fetches, preview, tracker>>

\* ------------------------------------------------- requests of any client
\* The radii a request may carry: the column has no CHECK, 100 is below the
\* slider's minimum.
ApiRadii == Radii \cup {100}

\* insert into reports, sent by the client authenticated as uid with any row:
\* the INSERT policy admits or rejects it, the BEFORE INSERT trigger sets the
\* location.
ApiInsertReport(uid, row) ==
  /\ Len(reports) < MaxReports
  /\ IF ReportsInsertPolicy(uid, row)
       THEN /\ reports' = InsertRows(reports,
                            <<update_report_location(ReportDefaults(row))>>)
            /\ supplied' = Append(supplied, row.location)
            /\ response' = [op |-> "reports.insert", uid |-> uid, status |-> "created"]
            /\ reportEvents' = reportEvents
                 \cup ReportBroadcast(NewReportId, ReportDefaults(row))
       ELSE /\ UNCHANGED <<reports, supplied, reportEvents>>
            /\ response' = [op |-> "reports.insert", uid |-> uid, status |-> "denied"]
  /\ UNCHANGED <<profiles, notification_alerts, confirmations, dialog, fanout,
                 requests, apiAlerts,
                 now, channels, events, toasts, form, client, live, index, fired, profileRows, fetches, preview, tracker>>

\* update reports set lat, lon, location where id = ..., sent by uid: the UPDATE
\* policy (with the SELECT policy, the statement reading the id column) selects
\* the rows uid owns and sees, the BEFORE UPDATE trigger sets the location.  A
\* statement that selects no row changes nothing and is no error.
ApiUpdateReport(uid, id, lat, lon, location) ==
  /\ id \in 1..Len(reports)
  /\ IF ReportsUpdatePolicy(uid, reports[id]) /\ ReportsSelectPolicy(uid, reports[id])
       THEN /\ reports' = [reports EXCEPT ![id] =
                   update_report_location([@ EXCEPT !.lat = lat, !.lon = lon,
                                                    !.location = location])]
            /\ supplied' = [supplied EXCEPT ![id] = location]
            /\ response' = [op |-> "reports.update", uid |-> uid, status |-> "updated"]
       ELSE /\ UNCHANGED <<reports, supplied>>
            /\ response' = [op |-> "reports.update", uid |-> uid, status |-> "no_rows"]
  /\ UNCHANGED <<profiles, notification_alerts, confirmations, dialog, fanout,
                 requests, apiAlerts,
                 now, channels, events, toasts, form, client, live, index, reportEvents, fired, profileRows, fetches, preview, tracker>>

\* Time passes: one hour.
Tick ==
  /\ now < MaxTime
  /\ now' = now + 1
  /\ UNCHANGED <<profiles, reports, notification_alerts, confirmations, dialog,
                 fanout, requests, apiAlerts, supplied, response, channels,
                 events, toasts, form, client, live, index, reportEvents, fired, profileRows, fetches, preview, tracker>>

\* The ids of the reports a select sent by uid returns: the rows the SELECT
\* policy lets through.
VisibleReports(uid) ==
  {i \in 1..Len(reports) : ReportsSelectPolicy(uid, reports[i])}

\* select * from reports, sent by uid.
ApiSelectReports(uid) ==
  /\ response' = [op |-> "reports.select", uid |-> uid, at |-> now,
                  rows |-> VisibleReports(uid)]
  /\ UNCHANGED <<profiles, reports, notification_alerts, confirmations, dialog,
                 fanout, requests, apiAlerts, supplied, now, channels, events,
                 toasts, form, client, live, index, reportEvents, fired, profileRows, fetches, preview, tracker>>

\* Index.loadReports, the active-reports listing, on a device whose clock shows
\* clientNow: select * from reports where expiry_at >= clientNow.
LoadReports(u, clientNow) ==
  /\ response' = [op |-> "loadReports", uid |-> u, at |-> now,
                  rows |-> {i \in VisibleReports(u) : reports[i].expiry_at >= clientNow}]
  /\ UNCHANGED <<profiles, reports, notification_alerts, confirmations, dialog,
                 fanout, requests, apiAlerts, supplied, now, channels, events,
                 toasts, form, client, live, index, reportEvents, fired, profileRows, fetches, preview, tracker>>

\* insert into notification_alerts, sent by uid with any row: the table has no
\* foreign key and no unique constraint, the INSERT policy compares the
\* sender with auth.uid().
ApiInsertAlert(uid, row) ==
  /\ apiAlerts < MaxApiAlerts
  /\ IF AlertsInsertPolicy(uid, row)
       THEN /\ notification_alerts' = InsertRows(notification_alerts, <<row>>)
            /\ events' = events \cup Broadcast(Len(notification_alerts), <<row>>)
            /\ apiAlerts' = apiAlerts + 1
       ELSE UNCHANGED <<notification_alerts, apiAlerts, events>>
  /\ UNCHANGED <<profiles, reports, confirmations, dialog, fanout, requests, supplied,
                 now, response, channels, toasts, form, client, live, index, reportEvents, fired, profileRows, fetches, preview, tracker>>

\* LiveNotifications mounts for user u, or any client of u opens a channel
\* named 'notification_alerts' with a filter: supabase.channel(...).on(
\* 'postgres_changes', {event: 'INSERT', filter}).subscribe().  A client holds
\* one channel of that name.
Subscribe(u, filter) ==
  /\ \A c \in channels : c.user # u
  /\ channels' = channels \cup {[user |-> u, filter |-> filter]}
  /\ UNCHANGED <<profiles, reports, notification_alerts, confirmations, dialog,
                 fanout, requests, apiAlerts, supplied, now, response, events,
                 toasts, form, client, live, index, reportEvents, fired, profileRows, fetches, preview, tracker>>

\* The effect's cleanup: supabase.removeChannel(channel).  Events not yet
\* handed to the callback are not handed to it any more.
Unsubscribe(u) ==
  /\ \E c \in channels : c.user = u
  /\ channels' = {c \in channels : c.user # u}
  /\ events' = {e \in events : e.to # u}
  /\ UNCHANGED <<profiles, reports, notification_alerts, confirmations, dialog,
                 fanout, requests, apiAlerts, supplied, now, response, toasts, form, client, live, index, reportEvents, fired, profileRows, fetches, preview, tracker>>

\* The channel's callback runs for event e: one toast, one loadNotifications().
Deliver(e) ==
  /\ e \in events
  /\ events' = events \ {e}
  /\ toasts' = [toasts EXCEPT ![e.to] = Append(@, e.id)]
  /\ UNCHANGED <<profiles, reports, notification_alerts, confirmations, dialog,
                 fanout, requests, apiAlerts, supplied, now, response, channels, form, client, live, index, reportEvents, fired, profileRows, fetches, preview, tracker>>

\* update notification_alerts set <patch.col> = <patch.val> where id = ..., sent
\* by uid.  The UPDATE policy (and the SELECT policy, the statement reading the
\* id column) selects the row only for its recipient; a statement that selects
\* no row changes nothing.  The policy has no WITH CHECK of its own, so its
\* USING expression is also checked on the new row.  No column is excluded.
UpdateAlert(uid, id, patch) ==
  LET row == notification_alerts[id]
      new == [row EXCEPT ![patch.col] = patch.val]
      selected == AlertsUpdatePolicy(uid, row) /\ AlertsSelectPolicy(uid, row)
      status == IF ~selected THEN "no_rows"
                ELSE IF ~AlertsUpdatePolicy(uid, new) THEN "denied"
                ELSE "updated"
  IN  /\ id \in 1..Len(notification_alerts)
      /\ notification_alerts' = IF status = "updated"
                                  THEN [notification_alerts EXCEPT ![id] = new]
                                  ELSE notification_alerts
      /\ response' = [op |-> "alerts.update", uid |-> uid, status |-> status]
      /\ UNCHANGED <<profiles, reports, confirmations, dialog, fanout, requests,
                     apiAlerts, supplied, now, channels, events, toasts, form, client, live, index, reportEvents, fired, profileRows, fetches, preview, tracker>>

\* LiveNotifications.markAsRead(notificationId) for user u:
\* update({read_at: new Date().toISOString()}).eq('id', notificationId).
\* A timestamp is the 1-tuple of its hour.
MarkAsRead(u, id) == UpdateAlert(u, id, [col |-> "read_at", val |-> <<now>>])

\* The updates clients send apart from markAsRead's.
AlertPatches ==
  {[col |-> "message", val |-> "EDITED"]}
  \cup {[col |-> "recipient_user_id", val |-> v] : v \in Users}
  \cup {[col |-> "sender_user_id", val |-> v] : v \in Users}

\* delete from notification_alerts where id = ..., sent by uid: the table has
\* row-level security enabled and no DELETE policy, so no row is selected.
ApiDeleteAlert(uid, id) ==
  /\ id \in 1..Len(notification_alerts)
  /\ response' = [op |-> "alerts.delete", uid |-> uid, status |-> "no_rows"]
  /\ UNCHANGED <<profiles, reports, notification_alerts, confirmations, dialog,
                 fanout, requests, apiAlerts, supplied, now, channels, events,
                 toasts, form, client, live, index, reportEvents, fired, profileRows, fetches, preview, tracker>>

\* The ids of the alert rows a select sent by uid returns.
VisibleAlerts(uid) ==
  {i \in 1..Len(notification_alerts) : AlertsSelectPolicy(uid, notification_alerts[i])}

\* select * from notification_alerts, sent by uid without a filter.
ApiSelectAlerts(uid) ==
  /\ response' = [op |-> "alerts.select", uid |-> uid, rows |-> VisibleAlerts(uid)]
  /\ UNCHANGED <<profiles, reports, notification_alerts, confirmations, dialog,
                 fanout, requests, apiAlerts, supplied, now, channels, events,
                 toasts, form, client, live, index, reportEvents, fired, profileRows, fetches, preview, tracker>>

\* LiveNotifications.loadNotifications for user u:
\* select * from notification_alerts where recipient_user_id = u.
LoadNotifications(u) ==
  /\ response' = [op |-> "loadNotifications", uid |-> u,
                  rows |-> {i \in VisibleAlerts(u) :
                              notification_alerts[i].recipient_user_id = u}]
  /\ UNCHANGED <<profiles, reports, notification_alerts, confirmations, dialog,
                 fanout, requests, apiAlerts, supplied, now, channels, events,
                 toasts, form, client, live, index, reportEvents, fired, profileRows, fetches, preview, tracker>>

\* The table without its UNIQUE(report_id, user_id) constraint.
UniqueViolation_Dropped(table, row) == FALSE

\* confirmations UNIQUE(report_id, user_id): a stored row has the pair of `row`.
UniqueViolation(table, row) ==
  \E i \in 1..Len(table) :
    table[i].report_id = row.report_id /\ table[i].user_id = row.user_id

\* confirmations.report_id REFERENCES public.reports(id)
ReportExists(report_id) == report_id \in 1..Len(reports)

\* The column default of public.confirmations applied to an inserted row:
\* created_at is now().
ConfirmationDefaults(row) ==
  [report_id |-> row.report_id, user_id |-> row.user_id, type |-> row.type,
   created_at |-> now]

\* The answer of the store to "insert into confirmations" of `row` sent by uid,
\* on the tables as they are: the INSERT policy, the unique index, the
\* foreign key.
ConfirmationAnswer(uid, row) ==
  IF ~ConfirmationsInsertPolicy(uid, row) THEN "denied"
  ELSE IF UniqueViolation(confirmations, row) THEN "conflict"
  ELSE IF ~ReportExists(row.report_id) THEN "foreign_key"
  ELSE "created"

\* A client authenticated as uid sends an insert into confirmations.
SendConfirmation(uid, row) ==
  /\ Len(requests) < MaxConfirmationRequests
  /\ requests' = Append(requests, [uid |-> uid, row |-> row, answer |-> "pending"])
  /\ UNCHANGED <<profiles, reports, notification_alerts, confirmations, dialog,
                 fanout, apiAlerts, supplied,
                 now, response, channels, events, toasts, form, client, live, index, reportEvents, fired, profileRows, fetches, preview, tracker>>

\* The store executes request n, one statement in its own transaction: the
\* row is stored or the statement fails and stores nothing.
ExecuteConfirmation(n) ==
  LET q == requests[n]
      answer == ConfirmationAnswer(q.uid, q.row)
  IN  /\ q.answer = "pending"
      /\ requests' = [requests EXCEPT ![n].answer = answer]
      /\ confirmations' = IF answer = "created"
                            THEN InsertRows(confirmations,
                                            <<ConfirmationDefaults(q.row)>>)
                            ELSE confirmations
      /\ UNCHANGED <<profiles, reports, notification_alerts, dialog, fanout,
                     apiAlerts, supplied,
                     now, response, channels, events, toasts, form, client, live, index, reportEvents, fired, profileRows, fetches, preview, tracker>>

ConfirmationRows ==
  [report_id : ReportIds, user_id : Users, type : {"seen", "false"}]

ReportRows ==
  [user_id : Users, vehicle_no : {VehicleNo}, lat : Latitudes, lon : Longitudes,
   location : Geographies, radius_m : ApiRadii]

AlertRows ==
  [report_id : ReportIds, recipient_user_id : Users, sender_user_id : Users,
   message : {AlertMessage}, distance_meters : {0}, read_at : {NULL}]

\* No request answered yet.
NoResponse == [op |-> "none"]

\* StatusTracker before its first load: no report, nothing rendered.
NoTracker == [reports |-> <<>>, shown |-> <<>>]

\* ------------------------------------------------------------ specification
Init ==
  /\ profiles = [u \in Users |-> [location |-> NULL]]
  /\ reports = <<>>
  /\ notification_alerts = <<>>
  /\ confirmations = <<>>
  /\ dialog = IdleDialog
  /\ fanout = NoFanout
  /\ requests = <<>>
  /\ apiAlerts = 0
  /\ supplied = <<>>
  /\ now = 0
  /\ response = NoResponse
  /\ channels = {}
  /\ events = {}
  /\ toasts = [u \in Users |-> <<>>]
  /\ form = IdleForm
  /\ client = [user |-> 0, mounted |-> {}]
  /\ live = [c \in Components |-> <<>>]
  /\ index = [reports |-> <<>>, loads |-> {}]
  /\ reportEvents = {}
  /\ fired = {}
  /\ profileRows = <<>>
  /\ fetches = [u \in Users |-> [pc |-> "idle", profile |-> "none"]]
  /\ preview = NoPreview
  /\ tracker = NoTracker

Next ==
  \/ OpenDialog
  \/ \E r \in Radii : SetAlertRadius(r)
  \/ \E u \in Reporters, fix \in Fixes \cup {NULL, EquatorFix} :
        HandleSubmit(u, fix, VehicleNo)
  \/ ReportInsertOk
  \/ ReportInsertError
  \/ RangeQueryOk
  \/ RangeQueryError
  \/ AlertInsertOk
  \/ AlertInsertError
  \/ \E u \in Users, fix \in Fixes \cup {NULL, EquatorFix} : UpdateLocation(u, fix)

Spec == Init /\ [][Next]_vars

\* Any authenticated client writing reports through the API.
NextReports ==
  \/ \E uid \in Users, row \in ReportRows : ApiInsertReport(uid, row)
  \/ \E uid \in Users, id \in ReportIds, lat \in Latitudes, lon \in Longitudes,
        g \in Geographies : ApiUpdateReport(uid, id, lat, lon, g)

SpecReports == Init /\ [][NextReports]_vars

\* The rows of requests that went through no form: any radius of ApiRadii, the
\* vehicle number present or empty.
UnvalidatedReportRows ==
  [user_id : Users, vehicle_no : VehicleNumbers, lat : {12900}, lon : {77600},
   location : {ST_MakePoint(77600, 12900)}, radius_m : ApiRadii]

\* Any authenticated client inserting reports.
NextUnvalidated ==
  \E uid \in Users, row \in UnvalidatedReportRows : ApiInsertReport(uid, row)

SpecUnvalidated == Init /\ [][NextUnvalidated]_vars

\* Any authenticated client writing reports and alerts through the API, users
\* updating their stored location.
NextAlerts ==
  \/ \E uid \in Users, row \in ReportRows : ApiInsertReport(uid, row)
  \/ \E uid \in Users, row \in AlertRows : ApiInsertAlert(uid, row)
  \/ \E u \in Users, fix \in Fixes : UpdateLocation(u, fix)

SpecAlerts == Init /\ [][NextAlerts]_vars

\* The report TheftReportDialog stores for user 1 at 12.900N 77.600E with the
\* default radius.
StoredReport ==
  [user_id |-> 1, vehicle_no |-> VehicleNo, lat |-> 12900, lon |-> 77600,
   location |-> ST_MakePoint(77600, 12900), radius_m |-> DefaultRadius,
   created_at |-> 0, expiry_at |-> DefaultExpiryHours, status |-> "pending"]

\* The tables with that report stored (id 1), and nothing else: the other ids
\* of ReportIds refer to no report.
InitConfirmations ==
  /\ reports = <<StoredReport>>
  /\ supplied = <<StoredReport.location>>
  /\ profiles = [u \in Users |-> [location |-> NULL]]
  /\ notification_alerts = <<>>
  /\ confirmations = <<>>
  /\ dialog = IdleDialog
  /\ fanout = NoFanout
  /\ requests = <<>>
  /\ apiAlerts = 0
  /\ now = 0
  /\ response = NoResponse
  /\ channels = {}
  /\ events = {}
  /\ toasts = [u \in Users |-> <<>>]
  /\ form = IdleForm
  /\ client = [user |-> 0, mounted |-> {}]
  /\ live = [c \in Components |-> <<>>]
  /\ index = [reports |-> <<>>, loads |-> {}]
  /\ reportEvents = {}
  /\ fired = {}
  /\ profileRows = <<>>
  /\ fetches = [u \in Users |-> [pc |-> "idle", profile |-> "none"]]
  /\ preview = NoPreview
  /\ tracker = NoTracker

\* Any authenticated clients sending confirmations, executed in any order.
NextConfirmations ==
  \/ \E uid \in Users, row \in ConfirmationRows : SendConfirmation(uid, row)
  \/ \E n \in 1..MaxConfirmationRequests :
        n <= Len(requests) /\ ExecuteConfirmation(n)

SpecConfirmations == InitConfirmations /\ [][NextConfirmations]_vars

\* The rows written while the clock runs: by TheftReportDialog (no expiry_at,
\* the column default applies) and by clients that send an expiry_at, such as
\* TheftReportForm (now + expiryHours on the device's clock).
ExpiringReportRows ==
  LET base == [user_id |-> 1, vehicle_no |-> VehicleNo, lat |-> 12900, lon |-> 77600,
               location |-> ST_MakePoint(77600, 12900), radius_m |-> DefaultRadius]
  IN  {[base EXCEPT !.user_id = u] : u \in Users}
      \cup {[user_id |-> u, vehicle_no |-> base.vehicle_no, lat |-> base.lat,
              lon |-> base.lon, location |-> base.location,
              radius_m |-> base.radius_m, expiry_at |-> now + h] :
               u \in Users, h \in {0, 1}}

\* The clocks of the devices: within an hour of the store's.
ClientClocks == {now - 1, now, now + 1}

\* Reports are written and read while time passes.
NextExpiry ==
  \/ Tick
  \/ \E uid \in Users, row \in ExpiringReportRows : ApiInsertReport(uid, row)
  \/ \E uid \in Users : ApiSelectReports(uid)
  \/ \E u \in Users, clientNow \in ClientClocks : LoadReports(u, clientNow)

SpecExpiry == Init /\ [][NextExpiry]_vars

\* The confirmations sent while the clock runs: "seen", for the stored report.
ExpiringConfirmationRows ==
  [report_id : {1}, user_id : Users, type : {"seen"}]

\* Confirmations are sent and executed while time passes, the stored report
\* expiring at hour 2.
NextExpiringConfirmations ==
  \/ Tick
  \/ \E uid \in Users, row \in ExpiringConfirmationRows : SendConfirmation(uid, row)
  \/ \E n \in 1..MaxConfirmationRequests :
        n <= Len(requests) /\ ExecuteConfirmation(n)

SpecExpiringConfirmations == InitConfirmations /\ [][NextExpiringConfirmations]_vars

\* The alert rows written while channels are open: for report 1, from any
\* sender to any recipient.
InboxAlertRows ==
  [report_id : {1}, recipient_user_id : Users, sender_user_id : Users,
   message : {AlertMessage}, distance_meters : {0}, read_at : {NULL}]

\* Alerts are written, and then updated or deleted by any client, while time
\* passes.
NextInbox ==
  \/ Tick
  \/ \E uid \in Users, row \in InboxAlertRows : ApiInsertAlert(uid, row)
  \/ \E u \in Users, id \in 1..MaxApiAlerts : MarkAsRead(u, id)
  \/ \E uid \in Users, id \in 1..MaxApiAlerts, patch \in AlertPatches :
        UpdateAlert(uid, id, patch)
  \/ \E uid \in Users, id \in 1..MaxApiAlerts : ApiDeleteAlert(uid, id)

SpecInbox == Init /\ [][NextInbox]_vars

\* The alert rows written while channels are open: sent by a reporter.
ChannelAlertRows == {row \in InboxAlertRows : row.sender_user_id \in Reporters}

\* Alerts are written while clients open and close channels, receive events
\* and read the table.
NextRealtime ==
  \/ \E uid \in Users, row \in ChannelAlertRows : ApiInsertAlert(uid, row)
  \/ \E u \in Users, filter \in Users : Subscribe(u, filter)
  \/ \E u \in Users : Unsubscribe(u)
  \/ \E e \in events : Deliver(e)
  \/ \E uid \in Users : ApiSelectAlerts(uid)
  \/ \E u \in Users : LoadNotifications(u)

SpecRealtime == Init /\ [][NextRealtime]_vars

\* LiveNotifications mounts for any user, with its own id as filter, and stays
\* mounted; alerts are written; the realtime service hands every event in
\* flight to its channel's callback (weak fairness of each delivery).
NextRealtimeLive ==
  \/ \E uid \in Users, row \in InboxAlertRows : ApiInsertAlert(uid, row)
  \/ \E u \in Users : Subscribe(u, u)
  \/ \E e \in events : Deliver(e)

SpecRealtimeLive ==
  /\ Init
  /\ [][NextRealtimeLive]_vars
  /\ \A e \in [to : Users, id : 1..MaxApiAlerts] : WF_vars(Deliver(e))

\* The accounts of the batch specification: those of Users and one more, so
\* that the range query of a reporter returns two rows and more.
Residents == 1..(NumUsers + 1)

\* Every account has a profiles row: the reporter's with a stored location
\* (ProfileSection.updateLocation has run), the others' with one or none.
InitBatch ==
  /\ profiles \in [Residents -> [location : Geographies \cup {NULL}]]
  /\ \A u \in Reporters : profiles[u].location = ST_MakePoint(77600, 12900)
  /\ reports = <<>>
  /\ notification_alerts = <<>>
  /\ confirmations = <<>>
  /\ dialog = IdleDialog
  /\ fanout = NoFanout
  /\ requests = <<>>
  /\ apiAlerts = 0
  /\ supplied = <<>>
  /\ now = 0
  /\ response = NoResponse
  /\ channels = {}
  /\ events = {}
  /\ toasts = [u \in Users |-> <<>>]
  /\ form = IdleForm
  /\ client = [user |-> 0, mounted |-> {}]
  /\ live = [c \in Components |-> <<>>]
  /\ index = [reports |-> <<>>, loads |-> {}]
  /\ reportEvents = {}
  /\ fired = {}
  /\ profileRows = <<>>
  /\ fetches = [u \in Users |-> [pc |-> "idle", profile |-> "none"]]
  /\ preview = NoPreview
  /\ tracker = NoTracker

\* TheftReportDialog submits while any account reads notification_alerts.
NextBatch ==
  \/ OpenDialog
  \/ \E r \in Radii : SetAlertRadius(r)
  \/ \E u \in Reporters, fix \in Fixes \cup {NULL, EquatorFix} :
        HandleSubmit(u, fix, VehicleNo)
  \/ ReportInsertOk
  \/ ReportInsertError
  \/ RangeQueryOk
  \/ RangeQueryError
  \/ AlertInsertOk
  \/ AlertInsertError
  \/ \E uid \in Residents : ApiSelectAlerts(uid)

SpecBatch == InitBatch /\ [][NextBatch]_vars

\* The two report forms of Index in use while users store their locations.
NextForms ==
  \/ \E u \in Users, fix \in Fixes : UpdateLocation(u, fix)
  \/ \E u \in Reporters, fix \in Fixes \cup {NULL}, radius \in Radii,
        expiryHours \in FormExpiryHours, clientNow \in ClientClocks :
        TheftReportFormSubmit(u, fix, VehicleNo, radius, expiryHours, clientNow)
  \/ \E u \in Reporters, fix \in Fixes \cup {NULL}, useManualLocation \in BOOLEAN,
        clientNow \in ClientClocks :
        ReportStolenVehicleSubmit(u, fix, VehicleNo, useManualLocation, clientNow)
  \/ \E clientNow \in ClientClocks : FormInsertOk(clientNow)
  \/ FormInsertError

SpecForms == Init /\ [][NextForms]_vars

\* The Index page in a browser whose clock agrees with the store's: it
\* mounts, its user signs in and out and submits TheftReportForm from
\* one place, answers and events arrive in any order, and time passes.
NextIndex ==
  \/ Tick
  \/ Mount("Index", now)
  \/ \E u \in Reporters \cup {0} : ChangeUser(u, now)
  \/ /\ "Index" \in client.mounted
     /\ client.user # 0
     /\ \E expiryHours \in FormExpiryHours :
          TheftReportFormSubmit(client.user, <<12900, 77600>>, VehicleNo,
                                DefaultRadius, expiryHours, now)
  \/ FormInsertOk(now)
  \/ FormInsertError
  \/ \E data \in index.loads : IndexLoadDone(data)
  \/ \E e \in reportEvents : IndexDeliver(e)

SpecIndex == Init /\ [][NextIndex]_vars

\* The four subscribing components in a browser: they mount and unmount in any
\* order, the user signs in and out, reports are inserted and changes reach
\* the channels that are open.
NextLifecycle ==
  \/ \E c \in Components : Mount(c, now)
  \/ \E c \in Components : Unmount(c)
  \/ \E u \in Users \cup {0} : ChangeUser(u, now)
  \/ \E c \in Components : ChannelCallback(c)
  \/ \E uid \in Reporters :
        ApiInsertReport(uid, [StoredReport EXCEPT !.user_id = uid])
  \/ \E e \in reportEvents : IndexDeliver(e)

SpecLifecycle == Init /\ [][NextLifecycle]_vars

\* ------------------------------- profiles: the trigger and fetchProfile
\* SQL NULL of a text value.
NullText == "NULL"

\* COALESCE(a, b) of two text values.
COALESCE(a, b) == IF a # NullText THEN a ELSE b

\* raw_user_meta_data ->> 'name' of an auth.users row (NULL: no such key), and
\* its email.
MetaNames == {NullText, "asha"}
Emails == {"asha@example.org"}

\* The ids of the auth.users rows written: the reporter and another user.
SignedUp == Reporters \cup {2}

\* A table without the unique index on user_id.
profiles_user_id_key_Dropped(rows, user_id) == FALSE

\* "user_id UUID NOT NULL UNIQUE": a row with this user_id is stored, so an
\* INSERT of another one conflicts.
profiles_user_id_key(rows, user_id) ==
  \E i \in 1..Len(rows) : rows[i].user_id = user_id

\* The columns of a profiles row an INSERT leaves out take their defaults.
ProfileDefaults(row) ==
  [user_id    |-> row.user_id,
   name       |-> row.name,
   phone      |-> IF "phone" \in DOMAIN row THEN row.phone ELSE NULL,
   proof_url  |-> IF "proof_url" \in DOMAIN row THEN row.proof_url ELSE NULL,
   verified   |-> IF "verified" \in DOMAIN row THEN row.verified ELSE FALSE,
   fcm_token  |-> NULL,
   location   |-> IF "location" \in DOMAIN row THEN row.location ELSE NULL,
   created_at |-> IF "created_at" \in DOMAIN row THEN row.created_at ELSE now,
   updated_at |-> IF "updated_at" \in DOMAIN row THEN row.updated_at ELSE now]

\* update_profile_location(), the BEFORE UPDATE trigger of profiles.
update_profile_location(new) == [new EXCEPT !.updated_at = now]

\* The table after the statement of handle_user_profile() for the auth.users
\* row NEW = [id, raw_user_meta_data ->> 'name', email]:
\* INSERT ... ON CONFLICT (user_id) DO UPDATE SET updated_at, name.
UpsertProfile(rows, id, metaName, email) ==
  IF profiles_user_id_key(rows, id)
  THEN [i \in 1..Len(rows) |->
          IF rows[i].user_id = id
          THEN update_profile_location(
                 [rows[i] EXCEPT
                    !.updated_at = now,
                    !.name = COALESCE(COALESCE(metaName, email), rows[i].name)])
          ELSE rows[i]]
  ELSE Append(rows, ProfileDefaults([user_id    |-> id,
                                     name       |-> COALESCE(metaName, email),
                                     created_at |-> now,
                                     updated_at |-> now]))

\* handle_user_profile(), fired AFTER INSERT OR UPDATE ON auth.users.
handle_user_profile(id, metaName, email) ==
  /\ profileRows' = UpsertProfile(profileRows, id, metaName, email)
  /\ UNCHANGED <<profiles, reports, notification_alerts, confirmations,
                 dialog, fanout, requests, apiAlerts, supplied, now,
                 response, channels, events, toasts, form, client, live,
                 index, reportEvents, fired, fetches, preview, tracker>>

\* fetchProfile up to the answer of its select: .eq('user_id', user.id).single()
\* answers PGRST116 with no data unless exactly one row matches, and the
\* handler goes on to create the profile.
FetchProfile(u) ==
  /\ fetches[u].pc \in {"idle", "done"}
  /\ LET data == {i \in 1..Len(profileRows) : profileRows[i].user_id = u}
     IN  fetches' = [fetches EXCEPT ![u] =
           IF Cardinality(data) = 1
           THEN [pc |-> "done", profile |-> "selected"]
           ELSE [pc |-> "insert", profile |-> "none"]]
  /\ UNCHANGED <<profiles, reports, notification_alerts, confirmations,
                 dialog, fanout, requests, apiAlerts, supplied, now,
                 response, channels, events, toasts, form, client, live,
                 index, reportEvents, fired, profileRows, preview, tracker>>

\* The select answers with another error: logged, and the handler returns.
FetchProfileError(u) ==
  /\ fetches[u].pc \in {"idle", "done"}
  /\ fetches' = [fetches EXCEPT ![u] = [pc |-> "done", profile |-> "none"]]
  /\ UNCHANGED <<profiles, reports, notification_alerts, confirmations,
                 dialog, fanout, requests, apiAlerts, supplied, now,
                 response, channels, events, toasts, form, client, live,
                 index, reportEvents, fired, profileRows, preview, tracker>>

\* The rest of fetchProfile: the insert of the profile and its answer.  The
\* insert conflicts (23505) when a row of the user has been stored since the
\* select.
FetchProfileInsert(u, userName, location) ==
  /\ fetches[u].pc = "insert"
  /\ IF profiles_user_id_key(profileRows, u)
     THEN /\ fetches' = [fetches EXCEPT ![u] = [pc |-> "done", profile |-> "none"]]
          /\ UNCHANGED profileRows
     ELSE /\ profileRows' =
               Append(profileRows,
                      ProfileDefaults([user_id   |-> u,
                                       name      |-> userName,
                                       phone     |-> NULL,
                                       verified  |-> FALSE,
                                       proof_url |-> NULL,
                                       location  |-> location]))
          /\ fetches' = [fetches EXCEPT ![u] = [pc |-> "done", profile |-> "inserted"]]
  /\ UNCHANGED <<profiles, reports, notification_alerts, confirmations,
                 dialog, fanout, requests, apiAlerts, supplied, now,
                 response, channels, events, toasts, form, client, live,
                 index, reportEvents, fired, preview, tracker>>

\* updateLocation of ProfileSection: update({location}).eq('user_id', user.id).
UpdateProfileLocation(u, fix) ==
  /\ profileRows' = [i \in 1..Len(profileRows) |->
       IF profileRows[i].user_id = u
       THEN update_profile_location(
              [profileRows[i] EXCEPT !.location = ST_MakePoint(fix[2], fix[1])])
       ELSE profileRows[i]]
  /\ UNCHANGED <<profiles, reports, notification_alerts, confirmations,
                 dialog, fanout, requests, apiAlerts, supplied, now,
                 response, channels, events, toasts, form, client, live,
                 index, reportEvents, fired, fetches, preview, tracker>>

\* An update of the caller's own row sent to the API by uid ("Users can update
\* their own profile"): here of the verified column.
ApiUpdateProfile(uid, verified) ==
  /\ profileRows' = [i \in 1..Len(profileRows) |->
       IF uid = profileRows[i].user_id
       THEN update_profile_location([profileRows[i] EXCEPT !.verified = verified])
       ELSE profileRows[i]]
  /\ UNCHANGED <<profiles, reports, notification_alerts, confirmations,
                 dialog, fanout, requests, apiAlerts, supplied, now,
                 response, channels, events, toasts, form, client, live,
                 index, reportEvents, fired, fetches, preview, tracker>>

NextProfiles ==
  \/ Tick
  \/ \E id \in SignedUp, metaName \in MetaNames, email \in Emails :
       handle_user_profile(id, metaName, email)
  \/ \E u \in Reporters : FetchProfile(u)
  \/ \E u \in Reporters : FetchProfileError(u)
  \/ \E u \in Reporters, location \in {ST_MakePoint(77600, 12900), NULL} :
       FetchProfileInsert(u, "asha", location)
  \/ \E u \in Reporters : UpdateProfileLocation(u, <<12885, 77600>>)
  \/ \E uid \in Reporters : ApiUpdateProfile(uid, TRUE)

SpecProfiles == Init /\ [][NextProfiles]_vars

\* --------------------------------------------- reports: the expiry column
\* The expiry timestamps a client sends (hours on the clock of the model).
ExpiryTimes == 1..(MaxTime + 1)

\* update reports set expiry_at = ... where id = ..., sent by uid.  The UPDATE
\* policy names no column, so it covers expiry_at as any other; it has no WITH
\* CHECK, so its USING expression is also checked on the new row; and as the
\* statement reads the id column, the SELECT policy applies to the existing
\* row (no row selected otherwise) and to the new row (an error otherwise).
ApiUpdateReportExpiry(uid, id, expiry_at) ==
  /\ id \in 1..Len(reports)
  /\ LET new == update_report_location([reports[id] EXCEPT !.expiry_at = expiry_at])
     IN  IF ReportsUpdatePolicy(uid, reports[id]) /\ ReportsSelectPolicy(uid, reports[id])
         THEN IF ReportsUpdatePolicy(uid, new) /\ ReportsSelectPolicy(uid, new)
              THEN /\ reports' = [reports EXCEPT ![id] = new]
                   /\ response' = [op |-> "reports.update", uid |-> uid,
                                   status |-> "updated"]
              ELSE /\ UNCHANGED reports
                   /\ response' = [op |-> "reports.update", uid |-> uid,
                                   status |-> "denied"]
         ELSE /\ UNCHANGED reports
              /\ response' = [op |-> "reports.update", uid |-> uid,
                              status |-> "no_rows"]
  /\ UNCHANGED <<profiles, notification_alerts, confirmations, dialog,
                 fanout, requests, apiAlerts, supplied, now, channels,
                 events, toasts, form, client, live, index, reportEvents,
                 fired, profileRows, fetches, preview, tracker>>

\* Reports written and rewritten through the API while time passes.
NextReportExpiry ==
  \/ Tick
  \/ \E uid \in Users, expiry_at \in ExpiryTimes :
       ApiInsertReport(uid, [StoredReport EXCEPT !.user_id = uid,
                                                 !.expiry_at = expiry_at])
  \/ \E uid \in Users, id \in ReportIds, g \in Geographies :
       ApiUpdateReport(uid, id, ST_Y(g), ST_X(g), g)
  \/ \E uid \in Users, id \in ReportIds, expiry_at \in ExpiryTimes :
       ApiUpdateReportExpiry(uid, id, expiry_at)

SpecReportExpiry == Init /\ [][NextReportExpiry]_vars

\* The calls calculateUsersInRange makes: <<radius, position>>.
PreviewCalls == (Radii \cup {DefaultRadius}) \X Fixes

\* The dialog open on a device that has a position, the slider moved, the
\* calls answered in any order, other users moving meanwhile.
NextPreview ==
  \/ OpenDialog
  \/ \E r \in Radii \cup {DefaultRadius} : SetAlertRadius(r)
  \/ \E fix \in Fixes : LocationChanged(fix)
  \/ \E u \in Reporters, call \in PreviewCalls : UsersInRangeAnswer(u, call)
  \/ \E call \in PreviewCalls : UsersInRangeError(call)
  \/ \E u \in Users \ Reporters, fix \in Fixes : UpdateLocation(u, fix)

SpecPreview == Init /\ [][NextPreview]_vars

\* ------------------------------------------------------------ StatusTracker
\* getRemainingTime(expiryDate) at the client time clientNow, times in hours:
\* the text shown, without its number for a time that has run out.
getRemainingTime(expiryDate, clientNow) ==
  LET diff == expiryDate - clientNow
      diffHours == diff
      diffDays == diffHours \div 24
  IN  IF diff <= 0 THEN [text |-> "Expired", n |-> 0]
      ELSE IF diffDays > 0 THEN [text |-> "days remaining", n |-> diffDays]
      ELSE [text |-> "hours remaining", n |-> diffHours]

\* "new Date(report.expiry_at) < new Date()"
isExpired(report, clientNow) == report.expiry_at < clientNow

\* "isExpired ? 'expired' : report.status"
currentStatus(report, clientNow) ==
  IF isExpired(report, clientNow) THEN "expired" ELSE report.status

\* What StatusTracker renders for its reports at the client time clientNow:
\* per report the badge (currentStatus) and the text of getRemainingTime.
Rendered(rows, clientNow) ==
  [k \in 1..Len(rows) |->
     [report |-> rows[k],
      at |-> clientNow,
      badge |-> currentStatus(rows[k], clientNow),
      remaining |-> getRemainingTime(rows[k].expiry_at, clientNow)]]

\* loadUserReports of StatusTracker for the account u: select * from reports
\* where user_id = u, newest first, through the SELECT policy; setReports(data)
\* and the render that follows.
LoadUserReports(u) ==
  /\ LET ids == NewestFirst(reports,
                  {i \in VisibleReports(u) : reports[i].user_id = u})
         data == [k \in 1..Len(ids) |->
                    [id |-> ids[k], status |-> reports[ids[k]].status,
                     expiry_at |-> reports[ids[k]].expiry_at]]
     IN  tracker' = [reports |-> data, shown |-> Rendered(data, now)]
  /\ UNCHANGED <<profiles, reports, notification_alerts, confirmations,
                 dialog, fanout, requests, apiAlerts, supplied, now,
                 response, channels, events, toasts, form, client, live,
                 index, reportEvents, fired, profileRows, fetches, preview>>

\* A later render of StatusTracker (any state change of the page), at the
\* client time clientNow.
RenderTracker(clientNow) ==
  /\ tracker.reports # <<>>
  /\ tracker' = [tracker EXCEPT !.shown = Rendered(tracker.reports, clientNow)]
  /\ UNCHANGED <<profiles, reports, notification_alerts, confirmations,
                 dialog, fanout, requests, apiAlerts, supplied, now,
                 response, channels, events, toasts, form, client, live,
                 index, reportEvents, fired, profileRows, fetches, preview>>

\* Reports of any status are stored, loaded by their owner's StatusTracker and
\* rendered as time passes.
NextTracker ==
  \/ Tick
  \/ \E uid \in Reporters, expiry_at \in ExpiryTimes,
        status \in {"pending", "verified", "false"} :
       ApiInsertReport(uid, [StoredReport EXCEPT !.user_id = uid,
                                                 !.expiry_at = expiry_at,
                                                 !.status = status])
  \/ \E u \in Reporters : LoadUserReports(u)
  \/ RenderTracker(now)

SpecTracker == Init /\ [][NextTracker]_vars

\* ------------------------------------------------------------------ claims
\* The indices of the alert rows of report r addressed to user v.
AlertsFor(r, v) ==
  {i \in 1..Len(notification_alerts) :
     /\ notification_alerts[i].report_id = r
     /\ notification_alerts[i].recipient_user_id = v}

FanoutFailure == {"rpc_error", "insert_error"}

\* C1. Self-exclusion: every alert the fan-out writes or prepares is addressed
\* to somebody else than its sender, and than the owner of its report.
C1_SelfExclusion ==
  /\ \A i \in 1..Len(notification_alerts) :
       /\ notification_alerts[i].recipient_user_id
            # notification_alerts[i].sender_user_id
       /\ notification_alerts[i].recipient_user_id
            # reports[notification_alerts[i].report_id].user_id
  /\ \A i \in 1..Len(dialog.alerts) :
       dialog.alerts[i].recipient_user_id # dialog.user

\* C1 witness: a fan-out wrote alerts for a report whose owner had a stored
\* location inside the report's radius when the range query ran.
C1_Witness ==
  /\ fanout.state = "sent"
  /\ dialog.user \in fanout.inRange
  /\ \E v \in Users : AlertsFor(fanout.report, v) # {}

\* The great-circle distance of the claim for two positions of the model,
\* in millimetres: 0 for coincident positions.
SpecDistanceMM(lat1, lon1, lat2, lon2) ==
  IF lat1 = lat2 /\ lon1 = lon2 THEN 0
  ELSE GreatCircleMM(lat1, lon1, lat2, lon2)

\* C2. Range query result: for every center, radius and caller, on the profiles
\* table of every reachable state, get_users_in_range raises no error and
\* returns exactly the users with a stored location, other than the caller,
\* whose distance to the center is at most the radius.
C2_RangeQueryExact ==
  \A c \in Fixes, r \in Radii \cup {0}, uid \in Users :
    LET res == get_users_in_range(c[1], c[2], r, uid)
    IN  /\ ~res.error
        /\ {res.data[i].user_id : i \in 1..Len(res.data)}
             = {v \in Users :
                  /\ v # uid
                  /\ profiles[v].location # NULL
                  /\ SpecDistanceMM(c[1], c[2], profiles[v].location[2],
                                    profiles[v].location[1]) <= 1000 * r}

\* C3. Fan-out completeness: once a fan-out has succeeded for a report, every
\* user other than the owner who was in range when the range query ran has
\* exactly one alert for the report, and everybody else (the owner, users with
\* no stored location, users out of range) has none.
C3_FanoutComplete ==
  fanout.state = "sent" =>
    \A v \in Users :
      Cardinality(AlertsFor(fanout.report, v))
        = IF v \in fanout.inRange \ {reports[fanout.report].user_id} THEN 1 ELSE 0

\* C3 witness: a fan-out succeeded and wrote an alert, while some user (the
\* owner included) was left without one.
C3_Witness ==
  /\ fanout.state = "sent"
  /\ \E v \in Users : Cardinality(AlertsFor(fanout.report, v)) = 1
  /\ \E v \in Users : AlertsFor(fanout.report, v) = {}

C8_FanoutAfterReport ==
  /\ \A i \in 1..Len(notification_alerts) :
       notification_alerts[i].report_id \in 1..Len(reports)
  /\ \A i \in 1..Len(dialog.alerts) :
       dialog.alerts[i].report_id \in 1..Len(reports)
  /\ dialog.pc \in {"rpc", "alerts.insert"} =>
       /\ dialog.reportId \in 1..Len(reports)
       /\ reports[dialog.reportId].user_id = dialog.user
  /\ (dialog.pc = "idle" /\ dialog.toast = "error") => fanout.state = "none"

\* C8 witness: a submission failed at the report insert after an earlier one
\* had stored a report and its alerts.
C8_Witness ==
  /\ dialog.pc = "idle"
  /\ dialog.toast = "error"
  /\ Len(reports) = 1
  /\ Len(notification_alerts) > 0

\* C9. Fan-out failure is non-fatal: the step in which the range query or the
\* alert insert fails leaves the reports table as it is, with the report in it,
\* and ends handleSubmit on its success path: success toast with count 0, form
\* reset, dialog closed, isSubmitting false.
C9_FanoutFailureNonFatal ==
  [][(fanout'.state \in FanoutFailure /\ fanout' # fanout) =>
       /\ reports' = reports
       /\ fanout'.report \in 1..Len(reports)
       /\ reports[fanout'.report].user_id = dialog.user
       /\ dialog'.pc = "idle"
       /\ dialog'.toast = "submitted"
       /\ dialog'.alertsSent = 0
       /\ dialog'.alertRadius = DefaultRadius
       /\ ~dialog'.open
       /\ ~dialog'.isSubmitting]_vars

\* C9 witness: the alert insert failed after the report was stored, and the
\* dialog shows the success toast.
C9_Witness ==
  /\ fanout.state = "insert_error"
  /\ fanout.report \in 1..Len(reports)
  /\ dialog.toast = "submitted"
  /\ dialog.alertsSent = 0

\* C10. Alert count accuracy: when a submission has finished, the count shown
\* is the number of alert rows stored for its report; it is 0 when the fan-out
\* failed.
C10_AlertCountAccurate ==
  (dialog.pc = "idle" /\ fanout.state \in FanoutFailure \cup {"sent"}) =>
    /\ dialog.alertsSent
         = Cardinality({i \in 1..Len(notification_alerts) :
                          notification_alerts[i].report_id = fanout.report})
    /\ fanout.state \in FanoutFailure => dialog.alertsSent = 0

\* C10 witness: a finished submission shows a count above 0.
C10_Witness ==
  /\ dialog.pc = "idle"
  /\ fanout.state = "sent"
  /\ dialog.alertsSent > 0

\* C4. Every alert row references an existing report and a recipient whose
\* stored location, when the row is written, is within that report's radius_m
\* of its (lat, lon): stated for every insert the INSERT policy admits.
C4_AlertsReferenceReportInRange ==
  [][\A i \in (Len(notification_alerts) + 1)..Len(notification_alerts') :
       LET a == notification_alerts'[i]
       IN  /\ a.report_id \in 1..Len(reports)
           /\ a.recipient_user_id \in UsersInRangeOf(reports[a.report_id])]_vars

\* C7. Geometry derivation: every stored report's location is the point built
\* from its stored (lon, lat).
C7_GeometryDerived ==
  \A i \in 1..Len(reports) :
    reports[i].location = ST_MakePoint(reports[i].lon, reports[i].lat)

\* C7 witness: two reports are stored whose writers sent a location that is
\* not the point of the row's (lon, lat), one of them by an update.
C7_Witness ==
  /\ Len(reports) = 2
  /\ supplied[1] # ST_MakePoint(reports[1].lon, reports[1].lat)
  /\ supplied[2] # ST_MakePoint(reports[2].lon, reports[2].lat)
  /\ reports[1].lat # reports[2].lat

\* The confirmation rows of the pair (r, u), and the requests for it by answer.
ConfirmationsOf(r, u) ==
  {i \in 1..Len(confirmations) :
     confirmations[i].report_id = r /\ confirmations[i].user_id = u}

AnsweredWith(r, u, answer) ==
  {n \in 1..Len(requests) :
     /\ requests[n].row.report_id = r
     /\ requests[n].row.user_id = u
     /\ requests[n].answer = answer}

\* C6. Confirmation uniqueness: at most one row per (report_id, user_id); of the
\* inserts for one pair, issued in any order and executed in any order, exactly
\* as many succeeded as rows are stored (so the others stored nothing), and an
\* insert the policy admits for a stored report, once answered, either
\* succeeded or failed with a conflict while the pair's row was stored.
C6_ConfirmationUnique ==
  /\ \A r \in ReportIds, u \in Users :
       /\ Cardinality(ConfirmationsOf(r, u)) <= 1
       /\ Cardinality(AnsweredWith(r, u, "created"))
            = Cardinality(ConfirmationsOf(r, u))
       /\ AnsweredWith(r, u, "conflict") # {} => ConfirmationsOf(r, u) # {}
  /\ \A n \in 1..Len(requests) :
       LET q == requests[n]
       IN  (/\ q.answer # "pending"
            /\ q.uid = q.row.user_id
            /\ q.row.report_id \in 1..Len(reports))
           => q.answer \in {"created", "conflict"}

\* C6 witness: two inserts for one pair were in flight together (the one sent
\* second was executed first and succeeded), and the other failed with a
\* conflict.
C6_Witness ==
  \E n, m \in 1..Len(requests) :
    /\ n < m
    /\ requests[n].row.report_id = requests[m].row.report_id
    /\ requests[n].row.user_id = requests[m].row.user_id
    /\ requests[n].answer = "conflict"
    /\ requests[m].answer = "created"
    /\ Len(confirmations) = 1

\* C11. Expiry visibility: a read of reports, by the plain select or by the
\* active-reports listing, by any user, returns a report only if its expiry_at
\* is later than the time of the read, and returns every report stored before
\* the hour of the read whose expiry_at is later than it.  So a report created
\* at T with the 2-hour default is returned at T+1, and neither at T+2 (the
\* instant it expires) nor at T+3.
C11_ExpiryVisibility ==
  response.op \in {"reports.select", "loadReports"} =>
    /\ \A i \in response.rows : reports[i].expiry_at > response.at
    /\ \A i \in 1..Len(reports) :
         (reports[i].created_at < response.at /\ reports[i].expiry_at > response.at)
           => i \in response.rows

\* C11 witness: the owner of a report with the 2-hour default ran the listing at
\* the instant the report expired and did not get it.
C11_Witness ==
  /\ response.op = "loadReports"
  /\ \E i \in 1..Len(reports) :
       /\ reports[i].user_id = response.uid
       /\ reports[i].expiry_at = reports[i].created_at + DefaultExpiryHours
       /\ response.at = reports[i].expiry_at
       /\ i \notin response.rows

\* C12. Report creation authorization: a step that stores a report is an insert
\* answered "created" whose row carries the caller as user_id, and an insert
\* answered "denied" (its user_id is not the caller) leaves the reports table
\* as it is; an insert is denied exactly when its user_id is not the caller.
C12_ReportAuthorization ==
  [][/\ Len(reports') > Len(reports) =>
          /\ response'.op = "reports.insert"
          /\ response'.status = "created"
          /\ reports'[Len(reports')].user_id = response'.uid
     /\ (response'.op = "reports.insert" /\ response'.status = "denied") =>
          reports' = reports
     /\ (response'.op = "reports.insert" /\ response'.status = "created") =>
          Len(reports') = Len(reports) + 1]_vars

\* C12 witness: an insert was denied while a report of another insert is stored.
C12_Witness ==
  /\ response.op = "reports.insert"
  /\ response.status = "denied"
  /\ Len(reports) = 1
  /\ reports[1].user_id # response.uid

\* C13. Validation: every stored report has MinRadius <= radius_m <= MaxRadius
\* and a non-empty vehicle_no.
C13_ReportsValidated ==
  \A i \in 1..Len(reports) :
    /\ MinRadius <= reports[i].radius_m
    /\ reports[i].radius_m <= MaxRadius
    /\ reports[i].vehicle_no # ""

\* C14. Alert sender is the report owner: every alert row whose report is stored
\* has the owner of that report as sender_user_id.
C14_SenderIsReportOwner ==
  \A i \in 1..Len(notification_alerts) :
    notification_alerts[i].report_id \in 1..Len(reports) =>
      notification_alerts[i].sender_user_id
        = reports[notification_alerts[i].report_id].user_id

\* C16. Alert confidentiality: a read of notification_alerts by a user returns
\* only rows addressed to that user, and an INSERT event in flight to a user or
\* handled by a user's callback is for a row addressed to that user, whatever
\* filter the user's channel carries.
C16_AlertConfidentiality ==
  /\ response.op \in {"alerts.select", "loadNotifications"} =>
       \A i \in response.rows :
         notification_alerts[i].recipient_user_id = response.uid
  /\ \A e \in events : notification_alerts[e.id].recipient_user_id = e.to
  /\ \A u \in Users : \A k \in 1..Len(toasts[u]) :
       notification_alerts[toasts[u][k]].recipient_user_id = u

\* C16 witness: a row addressed to v is stored; u, another user, holds a channel
\* filtered on v and has received nothing, and u's unfiltered select returned
\* no row.
C16_Witness ==
  \E u, v \in Users :
    /\ u # v
    /\ [user |-> u, filter |-> v] \in channels
    /\ Len(notification_alerts) > 0
    /\ \A i \in 1..Len(notification_alerts) :
         notification_alerts[i].recipient_user_id = v
    /\ toasts[u] = <<>>
    /\ \A e \in events : e.to # u
    /\ response.op = "alerts.select"
    /\ response.uid = u
    /\ response.rows = {}

\* C15. Alert immutability: no step removes an alert row or changes the
\* report_id, recipient_user_id, sender_user_id, message or distance_meters of
\* one, and read_at changes only in an update sent by the row's recipient.
C15_AlertImmutable ==
  [][/\ Len(notification_alerts') >= Len(notification_alerts)
     /\ \A i \in 1..Len(notification_alerts) :
          LET a == notification_alerts[i]
              b == notification_alerts'[i]
          IN  /\ b.report_id = a.report_id
              /\ b.recipient_user_id = a.recipient_user_id
              /\ b.sender_user_id = a.sender_user_id
              /\ b.message = a.message
              /\ b.distance_meters = a.distance_meters
              /\ b.read_at # a.read_at => response'.uid = a.recipient_user_id]_vars

\* How many times the callback of user u has fired for alert id.
Fired(u, id) == Cardinality({k \in 1..Len(toasts[u]) : toasts[u][k] = id})

RequestOf(r) ==
  [user_id |-> r.user_id, vehicle_no |-> r.vehicle_no, lat |-> r.lat,
   lon |-> r.lon, radius_m |-> r.radius_m]

\* C18. Duplicate submission: every submission whose reports insert succeeds
\* stores one more report and is given an id no stored report has, whether or
\* not a report with the same request data is already stored; the fan-out that
\* then succeeds leaves every stored alert as it is and adds, for its own
\* report, exactly one alert per user in range other than the owner and none
\* for anybody else.  So a user in range of two identical submissions holds
\* two alerts, one per report.
C18_DuplicateSubmission ==
  [][/\ dialog.pc = "reports.insert" /\ dialog'.pc = "rpc" =>
          /\ Len(reports') = Len(reports) + 1
          /\ SubSeq(reports', 1, Len(reports)) = reports
          /\ dialog'.reportId = Len(reports')
          /\ dialog'.reportId \notin 1..Len(reports)
     /\ fanout.state # "sent" /\ fanout'.state = "sent" =>
          /\ SubSeq(notification_alerts', 1, Len(notification_alerts))
               = notification_alerts
          /\ \A i \in (Len(notification_alerts) + 1)..Len(notification_alerts') :
               notification_alerts'[i].report_id = fanout'.report
          /\ \A v \in Users :
               Cardinality({i \in (Len(notification_alerts) + 1)
                                   ..Len(notification_alerts') :
                              notification_alerts'[i].recipient_user_id = v})
                 = IF v \in fanout'.inRange \ {reports[fanout'.report].user_id}
                     THEN 1 ELSE 0
          /\ \A i \in 1..Len(notification_alerts) :
               notification_alerts[i].report_id # fanout'.report]_vars

\* C18 witness: the same request was submitted twice, both reports are stored,
\* the second fan-out has succeeded, and a user holds exactly two alerts, one
\* for each of the two reports.
C18_Witness ==
  /\ Len(reports) = 2
  /\ RequestOf(reports[1]) = RequestOf(reports[2])
  /\ fanout.state = "sent" /\ fanout.report = 2
  /\ \E v \in Users :
       /\ Cardinality(AlertsFor(1, v)) = 1
       /\ Cardinality(AlertsFor(2, v)) = 1
       /\ Cardinality({i \in 1..Len(notification_alerts) :
                         notification_alerts[i].recipient_user_id = v}) = 2

\* C19. Confirmations only on visible reports: every stored confirmation was
\* created while its report was unexpired, that is, at a time before the
\* report's expiry_at (an insert executed at expiry_at or later is rejected).
C19_ConfirmationsOnUnexpiredReports ==
  \A i \in 1..Len(confirmations) :
    confirmations[i].created_at < reports[confirmations[i].report_id].expiry_at

\* The indices of the alert rows stored for report r.
StoredFor(r) ==
  {i \in 1..Len(notification_alerts) : notification_alerts[i].report_id = r}

\* C20. Fan-out batch atomicity: in every state, which is what a reader of the
\* table can find, the alerts stored for the report of the running or finished
\* fan-out are all the rows of its batch (one per row of the range-query
\* result) when the insert has succeeded, and none before that or when
\* sendAlertsToUsers failed; the batch awaiting its insert is the whole
\* range-query result; and of the rows of any report, an answer to a select
\* holds either none or all those addressed to the reader.
C20_BatchAtomicity ==
  /\ fanout.report # 0 =>
       LET n == Cardinality(StoredFor(fanout.report))
           full == Cardinality(fanout.inRange \ {reports[fanout.report].user_id})
       IN  /\ n \in {0, full}
           /\ n = IF fanout.state = "sent" THEN full ELSE 0
           /\ fanout.state = "sent" => dialog.alertsSent = full
           /\ dialog.pc = "alerts.insert" => Len(dialog.alerts) = full
  /\ response.op = "alerts.select" =>
       \A r \in 1..Len(reports) :
         LET seen == {i \in response.rows : notification_alerts[i].report_id = r}
         IN  \/ seen = {}
             \/ seen = {i \in StoredFor(r) :
                          notification_alerts[i].recipient_user_id = response.uid}

\* C20 witness: a fan-out stored a batch of two rows or more and a recipient
\* then read the table, finding its row of the batch.
C20_Witness ==
  /\ fanout.state = "sent"
  /\ Cardinality(StoredFor(fanout.report)) >= 2
  /\ response.op = "alerts.select"
  /\ \E i \in response.rows : notification_alerts[i].report_id = fanout.report

\* C21. Every submission path is followed by a fan-out: when a form has
\* reported the success of its submission, its handler has nothing left to
\* run, so by then every user in range of the stored report, other than its
\* owner, has an alert for it.
C21_SubmissionFollowedByFanout ==
  (form.toast = "success" /\ form.pc = "idle") =>
    \A v \in UsersInRangeOf(reports[form.reportId]) \ {reports[form.reportId].user_id} :
      AlertsFor(form.reportId, v) # {}

\* C22. Stolen-vehicle variant: a ReportStolenVehicle submission that reached
\* its insert ends, unless the store was unavailable, with the success toast
\* and its report stored, owned by the submitting user, with radius_m = 5000,
\* status 'active' and an expiry_at 7 days after the submission (on the
\* device's clock).
C22_StolenVehicleStored ==
  (/\ form.component = "ReportStolenVehicle"
   /\ form.pc = "idle"
   /\ form.toast \in {"success", "error"}
   /\ form.error # "unavailable") =>
    /\ form.toast = "success"
    /\ form.reportId \in 1..Len(reports)
    /\ reports[form.reportId].user_id = form.row.user_id
    /\ reports[form.reportId].radius_m = StolenVehicleRadius
    /\ reports[form.reportId].status = "active"
    /\ \E c \in {reports[form.reportId].created_at + d : d \in {-1, 0, 1}} :
         reports[form.reportId].expiry_at = c + StolenVehicleExpiryHours

\* The ids a step places in the list of Index: the first one when the step
\* prepends one entry, every entry when the step sets the list anew.
Placed ==
  IF index'.reports = index.reports THEN {}
  ELSE IF index'.reports # <<>> /\ Tail(index'.reports) = index.reports
    THEN {Head(index'.reports)}
    ELSE {index'.reports[k] : k \in 1..Len(index'.reports)}

\* C23. Every path that adds reports to the active-reports list of Index
\* filters by expiry at the time of adding: a step that places a report in the
\* list places one whose expiry_at is later than the current time.
C23_AddedReportsUnexpired ==
  [][\A r \in Placed : reports[r].expiry_at > now]_vars

\* C27. The reports list of Index never holds two entries with the same
\* report id.
C27_NoDuplicateEntries ==
  \A j, k \in 1..Len(index.reports) :
    index.reports[j] = index.reports[k] => j = k

\* C24. Subscription lifecycle: every component holds at most one live
\* channel, and only while it is mounted; the channel of a component whose
\* effect depends on the user was opened for the user now signed in; and no
\* callback has run for a component that was not mounted.
C24_SubscriptionLifecycle ==
  /\ \A c \in Components :
       /\ Len(live[c]) <= 1
       /\ c \notin client.mounted => live[c] = <<>>
       /\ (c \in UserEffects /\ live[c] # <<>>) => live[c][1].user = client.user
  /\ \A f \in fired : f.mounted

\* The columns of a profiles row other than id, user_id, name, created_at and
\* updated_at.
Kept(row) == <<row.location, row.verified, row.phone, row.fcm_token, row.proof_url>>

\* C25: there is at most one profiles row per user_id in every state, however
\* the trigger's upsert and the select and insert of fetchProfile interleave;
\* and the upsert of a user whose row exists adds no row and leaves the
\* location, verified, phone, fcm_token and proof_url of every row as they were.
C25_ProfileUniqueness ==
  /\ [](\A i, j \in 1..Len(profileRows) :
          profileRows[i].user_id = profileRows[j].user_id => i = j)
  /\ [][\A id \in Users, metaName \in MetaNames, email \in Emails :
          (/\ profiles_user_id_key(profileRows, id)
           /\ profileRows' = UpsertProfile(profileRows, id, metaName, email))
          => /\ Len(profileRows') = Len(profileRows)
             /\ \A i \in 1..Len(profileRows) :
                  /\ Kept(profileRows'[i]) = Kept(profileRows[i])
                  /\ profileRows'[i].user_id = profileRows[i].user_id
                  /\ profileRows'[i].created_at = profileRows[i].created_at]_vars

\* fetchProfile found no row and its insert was then refused, because the
\* trigger had stored the user's row in between; that row has since been
\* given a location and upserted again.
C25_Witness ==
  \E u \in Users :
    /\ fetches[u] = [pc |-> "done", profile |-> "none"]
    /\ \E i \in 1..Len(profileRows) :
         /\ profileRows[i].user_id = u
         /\ profileRows[i].location # NULL
         /\ profileRows[i].updated_at > profileRows[i].created_at

\* C26: no step changes the expiry_at of a stored report, and a report that is
\* not visible (its expiry_at is not after now()) is not visible after any
\* step either.
C26_ExpiryAbsorbing ==
  [][\A id \in 1..Len(reports) :
       /\ reports'[id].expiry_at = reports[id].expiry_at
       /\ reports[id].expiry_at <= now => reports'[id].expiry_at <= now']_vars

\* The order in which handleSubmit goes through its awaits and ends.
SubmitSteps ==
  {<<"idle", "reports.insert">>, <<"reports.insert", "rpc">>,
   <<"reports.insert", "idle">>, <<"rpc", "alerts.insert">>, <<"rpc", "idle">>,
   <<"alerts.insert", "idle">>}

\* C28. One submission in flight per TheftReportDialog: handleSubmit begins only
\* when none is running, and a running one moves forward only (report insert,
\* range query, alert insert, end), so no second one begins before it has
\* ended; a step stores at most one report, and only as the running
\* submission's report insert; alerts are stored only by its alert insert, the
\* last await of that submission; and isSubmitting is true exactly while a
\* submission runs, so it is false after the end of each, whether the report
\* insert failed, the fan-out failed or all succeeded.
C28_OneSubmissionInFlight ==
  [][/\ dialog'.pc # dialog.pc => <<dialog.pc, dialog'.pc>> \in SubmitSteps
     /\ dialog'.pc = "reports.insert" =>
          dialog.pc \in {"idle", "reports.insert"}
     /\ reports' # reports =>
          /\ dialog.pc = "reports.insert" /\ dialog'.pc = "rpc"
          /\ Len(reports') = Len(reports) + 1
     /\ notification_alerts' # notification_alerts =>
          dialog.pc = "alerts.insert" /\ dialog'.pc = "idle"
     /\ dialog.isSubmitting = (dialog.pc # "idle")
     /\ dialog'.isSubmitting = (dialog'.pc # "idle")]_vars

\* C28 witness: a first submission has stored its report and ended; a second
\* one has ended with the report insert refused, and the button is enabled
\* again.
C28_Witness ==
  /\ dialog.open
  /\ dialog.pc = "idle"
  /\ ~dialog.isSubmitting
  /\ dialog.toast = "error"
  /\ Len(reports) = 1
  /\ fanout = NoFanout

\* C29: whenever the dialog has a position and no get_users_in_range call of
\* calculateUsersInRange is in flight, the count shown was set by the answer
\* to the call made for the radius now selected and the position now reported.
C29_PreviewNeverStale ==
  (HasLocation(preview.location) /\ preview.calls = {}) =>
     preview.shownFor = <<dialog.alertRadius, preview.location>>

\* C30: in every render of StatusTracker, for every report, the badge reads
\* 'expired' exactly when getRemainingTime reads 'Expired', the instant at
\* which the report expires included, and otherwise the badge is the stored
\* status.
C30_ExpiryDisplayConsistent ==
  \A k \in 1..Len(tracker.shown) :
    LET s == tracker.shown[k]
    IN  /\ (s.badge = "expired") <=> (s.remaining.text = "Expired")
        /\ s.badge # "expired" => s.badge = s.report.status

====
